---------------------------- MODULE Spec2Model ----------------------------
(***************************************************************************)
(* Model of the music-input event pipeline.                                *)
(*                                                                         *)
(*  - the kernel driver (music_input): debounced interrupt handlers, the   *)
(*    circular event queue (queue_event) and the blocking read (mid_read,  *)
(*    with the wait_event_interruptible loop unfolded into its steps);     *)
(*  - the user-space daemon (music_daemon): the poll/read/accept dispatch  *)
(*    loop, the playback state machine and the player child processes.     *)
(*                                                                         *)
(* Variables that exist only to state properties (histories, counters that *)
(* cap a run) are marked "ghost".                                          *)
(***************************************************************************)
EXTENDS Integers, Sequences, FiniteSets, TLC

(***************************************************************************)
(* Program constants of the driver.                                        *)
(***************************************************************************)
EVENT_BUF_SIZE == 32
DEBOUNCE_MS == 300
ENCODER_DEBOUNCE_MS == 40

(***************************************************************************)
(* Program constants of the daemon.                                        *)
(***************************************************************************)
NUM_SONGS == 5
NUM_CLOUD == 5
VOLUME_STEP == 5
VOLUME_INIT == 75
EVENT_GAP_MS == 200

(***************************************************************************)
(* Bounds of the model.                                                    *)
(***************************************************************************)
\* kernel tick rate: jiffies per second
HZ == 100
\* value of jiffies when the module is loaded
BootJiffies == 40
\* calls of queue_event with free choice of the code in one run
MaxPush == 4
\* signals delivered to a reader blocked in mid_read in one run
MaxSignals == 1
\* read() calls with len = 0 in one run
MaxBadLen == 1
\* calls of queue_event in a burst run (enough to fill the ring and wrap)
MaxBurst == 35
\* events other than 'P' in a burst run
MaxRare == 1
\* read() calls in a burst run
MaxBurstReads == 2
\* interrupts and clock advances in a debounce run
MaxIrqs == 3
MaxTicks == 2
\* calls of queue_event in a run checked for liveness
MaxLivePush == 3
\* CLOCK_MONOTONIC, in ms, when the daemon starts
BootMs == 1000
\* hardware events, connections and clock advances in a daemon run
MaxHw == 2
MaxConn == 1
MaxMsTicks == 1
\* SpecDaemonFair: events pushed and connections made
MaxFairHw == 1
MaxFairConn == 1

EventCodes == {"P", "N", "R", "C", "U", "D", "M"}
\* static storage: every slot of event_buffer starts as the zero byte
NUL == "NUL"
QueueInputs == {"P", "N", "R"}
Channels == {"cloud", "play", "next", "prev", "encoder", "sw"}
Buttons == {"cloud", "play", "next", "prev", "sw"}

VARIABLES
    \* ---- driver ----
    jiffies,          \* kernel tick counter
    last_time,        \* last_<channel>_time, per channel
    last_clk_state,   \* last sampled encoder clock level
    event_buffer,     \* char event_buffer[EVENT_BUF_SIZE]
    buf_head,
    buf_tail,
    read_wait,        \* tasks queued on the wait queue head
    rd,               \* per task: its position in mid_read and task state (per CPU: in queue_event)
    \* ---- daemon ----
    sess,             \* the daemon's globals (current_song, mpg_pid, ...)
    dpc,              \* position of main's loop
    todo,             \* statements of the running handler still to execute
    revents,          \* pfd[0].revents & POLLIN, pfd[1].revents & POLLIN
    server,           \* what start_http_server left in server_fd
    backlog,          \* connections waiting on the listening socket
    cfd,              \* request on the accepted connection
    nresp,            \* responses sent on the accepted connection
    procs,            \* children of the daemon not yet reaped
    lastpid,          \* the pid the kernel gave out last
    mono_ms,          \* CLOCK_MONOTONIC in ms
    \* ---- ghost ----
    accepted,         \* events stored by queue_event, in order
    returned,         \* bytes returned by successful reads, in order
    ndropped,         \* queue_event calls that found the queue full
    lastpush,         \* outcome of the latest queue_event call
    accept_log,       \* per channel: times of the last two accepted transitions
    cmd,              \* the command dispatched last and the one before it
    budget            \* remaining counts that cap a run

vars == <<jiffies, last_time, last_clk_state, event_buffer, buf_head, buf_tail,
          read_wait, rd, accepted, returned, ndropped, lastpush, accept_log,
          budget, sess, dpc, todo, revents, server, backlog, cfd, nresp, procs,
          lastpid, mono_ms, cmd>>

daemonVars == <<sess, dpc, todo, revents, server, backlog, cfd, nresp, procs,
                lastpid, mono_ms, cmd>>

drvTime == <<jiffies, last_time, last_clk_state, accept_log>>
queueVars == <<event_buffer, buf_head, buf_tail>>

(***************************************************************************)
(* queue_event                                                             *)
(***************************************************************************)
NextIndex(i) == (i + 1) % EVENT_BUF_SIZE

\* mutants of HasRoom: a ring that never refuses, and one that refuses a slot early
HasRoom_always(head, tail) == TRUE
HasRoom_early(head, tail) == NextIndex(NextIndex(head)) # tail

\* the guard of queue_event: the slot after buf_head is not buf_tail
HasRoom(head, tail) == NextIndex(head) # tail

\* occupancy as the code's indices define it
Unread == (buf_head - buf_tail + EVENT_BUF_SIZE) % EVENT_BUF_SIZE

\* mutant of Woken: the wake-up is forgotten
Woken_none(waiters) == {}

\* wake_up_interruptible(&read_wait): every queued task becomes runnable and
\* its wait entry is removed (autoremove_wake_function)
Woken(waiters) == waiters

wake_up_interruptible ==
    /\ rd' = [r \in DOMAIN rd |->
                 IF r \in Woken(read_wait) THEN [rd[r] EXCEPT !.task = "RUNNING"]
                 ELSE rd[r]]
    /\ read_wait' = read_wait \ Woken(read_wait)

\* the body of queue_event, executed under buf_lock with interrupts disabled
queue_event(event) ==
    IF HasRoom(buf_head, buf_tail)
    THEN /\ event_buffer' = [event_buffer EXCEPT ![buf_head] = event]
         /\ buf_head' = NextIndex(buf_head)
         /\ UNCHANGED buf_tail
         /\ wake_up_interruptible
         /\ accepted' = Append(accepted, event)
         /\ lastpush' = [code |-> event, stored |-> TRUE, unread |-> Unread]
         /\ UNCHANGED ndropped
    ELSE /\ UNCHANGED <<event_buffer, buf_head, buf_tail, read_wait, rd, accepted>>
         /\ ndropped' = ndropped + 1
         /\ lastpush' = [code |-> event, stored |-> FALSE, unread |-> Unread]


(***************************************************************************)
(* Interrupt handlers.  A handler runs to completion: an IRQ line is never *)
(* re-entered, each handler touches only its own timestamp, and the queue  *)
(* is updated inside queue_event's critical section.                       *)
(***************************************************************************)
msecs_to_jiffies(m) == (m * HZ + 999) \div 1000

\* mutant of time_after: the boundary tick is let through
time_after_eq(a, b) == a >= b

\* time_after(a, b): a is later than b
time_after(a, b) == a > b

Window(ch) == IF ch = "encoder" THEN msecs_to_jiffies(ENCODER_DEBOUNCE_MS)
              ELSE msecs_to_jiffies(DEBOUNCE_MS)

WindowMs(ch) == IF ch = "encoder" THEN ENCODER_DEBOUNCE_MS ELSE DEBOUNCE_MS

ButtonCode(ch) == CASE ch = "cloud" -> "C"
                    [] ch = "play"  -> "P"
                    [] ch = "next"  -> "N"
                    [] ch = "prev"  -> "R"
                    [] ch = "sw"    -> "M"

\* the debounce test shared by every handler
DebounceOk(ch, now) == time_after(now, last_time[ch] + Window(ch))

LogAccept(ch, now) ==
    accept_log' = [accept_log EXCEPT ![ch] = <<accept_log[ch][2], now>>]

NoPush == UNCHANGED <<event_buffer, buf_head, buf_tail, read_wait, rd,
                      accepted, ndropped, lastpush>>

\* a handler that stamps every raw transition, accepted or not
button_isr_rawstamp(ch) ==
    LET now == jiffies IN
    /\ ch \in Buttons
    /\ last_time' = [last_time EXCEPT ![ch] = now]
    /\ IF DebounceOk(ch, now)
       THEN /\ LogAccept(ch, now)
            /\ queue_event(ButtonCode(ch))
       ELSE /\ UNCHANGED accept_log
            /\ NoPush
    /\ UNCHANGED <<jiffies, last_clk_state, returned>>

\* cloud_isr, play_isr, next_isr, prev_isr, encoder_sw_isr
button_isr(ch) ==
    LET now == jiffies IN
    /\ ch \in Buttons
    /\ IF DebounceOk(ch, now)
       THEN /\ last_time' = [last_time EXCEPT ![ch] = now]
            /\ LogAccept(ch, now)
            /\ queue_event(ButtonCode(ch))
       ELSE /\ UNCHANGED <<last_time, accept_log>>
            /\ NoPush
    /\ UNCHANGED <<jiffies, last_clk_state, returned>>

\* mutant of encoder_clk_isr: every accepted clock edge queues an event
encoder_clk_isr_anyedge(clk_state, dt_state) ==
    LET now == jiffies IN
    /\ IF ~DebounceOk("encoder", now)
       THEN /\ UNCHANGED <<last_time, accept_log, last_clk_state>>
            /\ NoPush
       ELSE /\ last_time' = [last_time EXCEPT !["encoder"] = now]
            /\ LogAccept("encoder", now)
            /\ queue_event(IF dt_state = 1 THEN "U" ELSE "D")
            /\ last_clk_state' = clk_state
    /\ UNCHANGED <<jiffies, returned>>

\* encoder_clk_isr; clk_state and dt_state are the levels gpiod_get_value
\* samples when the handler runs
encoder_clk_isr(clk_state, dt_state) ==
    LET now == jiffies IN
    /\ IF ~DebounceOk("encoder", now)
       THEN /\ UNCHANGED <<last_time, accept_log, last_clk_state>>
            /\ NoPush
       ELSE /\ last_time' = [last_time EXCEPT !["encoder"] = now]
            /\ LogAccept("encoder", now)
            /\ IF last_clk_state = 1 /\ clk_state = 0
               THEN queue_event(IF dt_state = 1 THEN "U" ELSE "D")
               ELSE NoPush
            /\ last_clk_state' = clk_state
    /\ UNCHANGED <<jiffies, returned>>

(***************************************************************************)
(* mid_read.  wait_event_interruptible is unfolded:                        *)
(*   first_check : the condition is tested once before any queueing        *)
(*   prepare     : prepare_to_wait_event (queue the task, mark it          *)
(*                 INTERRUPTIBLE, or report a pending signal)              *)
(*   loop_check  : condition, then the interrupted test                    *)
(*   schedule    : the task sleeps until it is made runnable               *)
(*   pop         : the critical section under buf_lock                     *)
(*   copy        : copy_to_user and return                                 *)
(***************************************************************************)
NonEmpty(head, tail) == head # tail

\* mutant of ReadSlot: the newest entry is read
ReadSlot_newest(head, tail) == (head + EVENT_BUF_SIZE - 1) % EVENT_BUF_SIZE

\* slot read by mid_read
ReadSlot(head, tail) == tail

\* mutant of AdvanceTail: the index skips an entry
AdvanceTail_skip(tail) == (tail + 2) % EVENT_BUF_SIZE

\* new value of buf_tail after a read
AdvanceTail(tail) == (tail + 1) % EVENT_BUF_SIZE

\* mutant of WaitOutcome: an interrupted wait falls through to the read
WaitOutcome_fallthrough(cond, interrupted) ==
    IF cond \/ interrupted THEN "proceed" ELSE "sleep"

\* what one pass of the wait loop decides, given the condition and the
\* result of prepare_to_wait_event
WaitOutcome(cond, interrupted) ==
    IF cond THEN "proceed"
    ELSE IF interrupted THEN "interrupted"
    ELSE "sleep"

IdleReader == [pc |-> "idle", task |-> "RUNNING", sig |-> FALSE, int |-> FALSE,
               ev |-> NUL, ret |-> "none"]

SetRd(r, rec) == rd' = [rd EXCEPT ![r] = rec]

\* read(fd, buf, len) enters mid_read; len < 1 returns -EINVAL at once
mid_read_call(r, len) ==
    /\ rd[r].pc = "idle"
    /\ IF len < 1
       THEN SetRd(r, [rd[r] EXCEPT !.ret = "EINVAL"])
       ELSE SetRd(r, [rd[r] EXCEPT !.pc = "first_check", !.ret = "none"])
    /\ UNCHANGED <<queueVars, read_wait, returned>>

mid_read_first_check(r) ==
    /\ rd[r].pc = "first_check"
    /\ SetRd(r, [rd[r] EXCEPT !.pc = IF NonEmpty(buf_head, buf_tail)
                                     THEN "pop" ELSE "prepare"])
    /\ UNCHANGED <<queueVars, read_wait, returned>>

mid_read_prepare(r) ==
    /\ rd[r].pc = "prepare"
    /\ IF rd[r].sig
       THEN /\ read_wait' = read_wait \ {r}
            /\ SetRd(r, [rd[r] EXCEPT !.pc = "loop_check", !.int = TRUE])
       ELSE /\ read_wait' = read_wait \cup {r}
            /\ SetRd(r, [rd[r] EXCEPT !.pc = "loop_check", !.int = FALSE,
                                      !.task = "INTERRUPTIBLE"])
    /\ UNCHANGED <<queueVars, returned>>

mid_read_loop_check(r) ==
    /\ rd[r].pc = "loop_check"
    /\ LET o == WaitOutcome(NonEmpty(buf_head, buf_tail), rd[r].int) IN
       CASE o = "proceed" ->
              \* finish_wait
              /\ read_wait' = read_wait \ {r}
              /\ SetRd(r, [rd[r] EXCEPT !.pc = "pop", !.task = "RUNNING",
                                        !.int = FALSE])
         [] o = "interrupted" ->
              \* return -ERESTARTSYS; the signal is handled on the way out
              /\ read_wait' = read_wait \ {r}
              /\ SetRd(r, [rd[r] EXCEPT !.pc = "idle", !.task = "RUNNING",
                                        !.int = FALSE, !.sig = FALSE,
                                        !.ret = "ERESTARTSYS"])
         [] o = "sleep" ->
              /\ SetRd(r, [rd[r] EXCEPT !.pc = "schedule"])
              /\ UNCHANGED read_wait
    /\ UNCHANGED <<queueVars, returned>>

\* schedule() returns once the task is runnable
mid_read_schedule(r) ==
    /\ rd[r].pc = "schedule"
    /\ rd[r].task = "RUNNING"
    /\ SetRd(r, [rd[r] EXCEPT !.pc = "prepare"])
    /\ UNCHANGED <<queueVars, read_wait, returned>>

mid_read_pop(r) ==
    /\ rd[r].pc = "pop"
    /\ SetRd(r, [rd[r] EXCEPT !.pc = "copy",
                              !.ev = event_buffer[ReadSlot(buf_head, buf_tail)]])
    /\ buf_tail' = AdvanceTail(buf_tail)
    /\ UNCHANGED <<event_buffer, buf_head, read_wait, returned>>

\* every caller in the repository passes the address of a local char, so
\* copy_to_user succeeds
mid_read_copy(r) ==
    /\ rd[r].pc = "copy"
    /\ SetRd(r, [rd[r] EXCEPT !.pc = "idle", !.ret = "1", !.sig = FALSE])
    /\ returned' = Append(returned, rd[r].ev)
    /\ UNCHANGED <<queueVars, read_wait>>

\* a signal is delivered to a task that is inside mid_read
deliver_signal(r) ==
    /\ rd[r].pc \notin {"idle"}
    /\ ~rd[r].sig
    /\ SetRd(r, [rd[r] EXCEPT !.sig = TRUE, !.task = "RUNNING"])
    /\ UNCHANGED <<queueVars, read_wait, returned>>

readerFrame == UNCHANGED <<drvTime, accepted, ndropped, lastpush>>

\* a step of the driver or of its environment leaves the daemon's memory alone
driverOnly == UNCHANGED daemonVars


(***************************************************************************)
(* Initial state: the driver right after music_input_probe.                *)
(***************************************************************************)
InitDriver(readers) ==
    /\ jiffies = BootJiffies
    /\ last_time = [ch \in Channels |-> 0]
    /\ last_clk_state \in {0, 1}
    /\ event_buffer = [i \in 0 .. EVENT_BUF_SIZE - 1 |-> NUL]
    /\ buf_head = 0
    /\ buf_tail = 0
    /\ read_wait = {}
    /\ rd = [r \in readers |-> IdleReader]
    /\ accepted = <<>>
    /\ returned = <<>>
    /\ ndropped = 0
    /\ lastpush = [code |-> NUL, stored |-> FALSE, unread |-> 0]
    /\ accept_log = [ch \in Channels |-> <<-1, -1>>]

NoBudget == [push |-> 0, sig |-> 0, badlen |-> 0, rare |-> 0, reads |-> 0,
             irqs |-> 0, ticks |-> 0, conn |-> 0, ms |-> 0, cmds |-> 0,
             ups |-> 0, downs |-> 0, mutes |-> 0]

Spend(what) == budget' = [budget EXCEPT ![what] = @ - 1]

(***************************************************************************)
(* Environment and consumer actions shared by the driver specifications.   *)
(***************************************************************************)
\* some handler passed its debounce test and calls queue_event(e)
Produce(e) ==
    /\ budget.push > 0
    /\ Spend("push")
    /\ queue_event(e)
    /\ UNCHANGED <<drvTime, returned>>
    /\ driverOnly

\* the consumer calls read(fd, &c, 1)
ReadCall(r) ==
    /\ mid_read_call(r, 1)
    /\ readerFrame
    /\ driverOnly
    /\ UNCHANGED budget

\* a consumer calls read with a zero length
ReadCallZero(r) ==
    /\ budget.badlen > 0
    /\ Spend("badlen")
    /\ mid_read_call(r, 0)
    /\ readerFrame
    /\ driverOnly

ReadStep(r) ==
    /\ \/ mid_read_first_check(r)
       \/ mid_read_prepare(r)
       \/ mid_read_loop_check(r)
       \/ mid_read_schedule(r)
       \/ mid_read_pop(r)
       \/ mid_read_copy(r)
    /\ readerFrame
    /\ driverOnly
    /\ UNCHANGED budget

Signal(r) ==
    /\ budget.sig > 0
    /\ Spend("sig")
    /\ deliver_signal(r)
    /\ readerFrame
    /\ driverOnly

(***************************************************************************)
(* The daemon (music_daemon.c).  main's loop is a program counter dpc:     *)
(*   poll    : poll(pfd, 2, 200)                                           *)
(*   dev     : the test of pfd[0].revents and the read() call              *)
(*   reading : inside mid_read (the steps of reader "d")                   *)
(*   run     : a handler is executing, statement by statement (todo)       *)
(*   sock    : the test of pfd[1].revents and accept()                     *)
(*   off     : the daemon is not running                                   *)
(*   killed  : the daemon was ended by a signal                            *)
(* A handler is unfolded into its statements so that every intermediate    *)
(* point of a transition is a state.                                       *)
(***************************************************************************)
Daemon == "d"

\* mid_fops names owner, open, release and read: there is no poll operation
mid_fops_poll == FALSE

\* poll() on the device: a file without a poll operation is reported ready
\* for reading whatever the queue holds
DevicePollIn(head, tail) == IF mid_fops_poll THEN NonEmpty(head, tail) ELSE TRUE

\* poll() on server_fd: readable when a connection waits on a listening socket
SocketPollIn == server = "listening" /\ backlog # <<>>

\* a set_volume that stores its argument as it comes
Clamp_none(v) == v

\* set_volume: if (v < 0) v = 0; if (v > 100) v = 100;
Clamp(v) == IF v < 0 THEN 0 ELSE IF v > 100 THEN 100 ELSE v

\* set_volume: clamp, store, hand the value to amixer
set_volume(ss, v) == [ss EXCEPT !.current_volume = Clamp(v), !.mixer = Clamp(v)]

\* a toggle_mute that does not save the volume before muting
toggle_mute_nosave(ss) ==
    IF ss.is_muted = 0
    THEN [set_volume(ss, 0) EXCEPT !.is_muted = 1]
    ELSE [set_volume(ss, ss.volume_before_mute) EXCEPT !.is_muted = 0]

\* toggle_mute: save the volume and set 0, or restore the saved volume
toggle_mute(ss) ==
    IF ss.is_muted = 0
    THEN [set_volume([ss EXCEPT !.volume_before_mute = ss.current_volume], 0)
             EXCEPT !.is_muted = 1]
    ELSE [set_volume(ss, ss.volume_before_mute) EXCEPT !.is_muted = 0]

\* mutant of stop_playback_ops: the handle is dropped without kill and waitpid
stop_playback_forget(pid) == <<"clear_pid", "killall", "not_playing">>

\* a stop_playback that signals the player but does not wait for it
stop_playback_nowait(pid) ==
    (IF pid > 0 THEN <<"kill", "clear_pid">> ELSE <<>>)
        \o <<"killall", "not_playing">>

\* statements of stop_playback, chosen by its test of mpg_pid
stop_playback_ops(pid) ==
    (IF pid > 0 THEN <<"kill", "waitpid", "clear_pid">> ELSE <<>>)
        \o <<"killall", "not_playing">>

\* a start_playback that forks but never marks the session as playing
start_playback_noflag(pid) ==
    IF pid > 0 THEN <<>> ELSE <<"killall", "fork">>

\* statements of start_playback, chosen by its test of mpg_pid
start_playback_ops(pid) ==
    IF pid > 0 THEN <<>> ELSE <<"killall", "fork", "set_playing">>

\* a switch whose MUTE_TOGGLE case also stops the player
HwOps_mutestop(ev) ==
    CASE ev = "P" -> <<"playpause">>
      [] ev = "N" -> <<"stop", "next_idx", "start">>
      [] ev = "R" -> <<"stop", "prev_idx", "start">>
      [] ev = "U" -> <<"vol_up">>
      [] ev = "D" -> <<"vol_down">>
      [] ev = "M" -> <<"mute", "stop">>
      [] ev = "C" -> <<"flip_mode", "stop", "clamp_idx", "start">>
      [] OTHER -> <<>>

\* the switch on the event byte in main
HwOps(ev) ==
    CASE ev = "P" -> <<"playpause">>
      [] ev = "N" -> <<"stop", "next_idx", "start">>
      [] ev = "R" -> <<"stop", "prev_idx", "start">>
      [] ev = "U" -> <<"vol_up">>
      [] ev = "D" -> <<"vol_down">>
      [] ev = "M" -> <<"mute">>
      [] ev = "C" -> <<"flip_mode", "stop", "clamp_idx", "start">>
      [] OTHER -> <<>>

\* a request as recv delivers it: the path of the request line, whether the
\* text holds "song=", and the number after it; path "" stands for a
\* connection on which recv returns nothing
Request(path, has, song) == [path |-> path, has |-> has, song |-> song]

\* no client connection is open
NoClient == Request("closed", FALSE, 0)

\* a chain of tests in which /next and /prev call each other's handler
HttpOps_crossed(req) ==
    CASE req.path = "/play"     -> <<"playpause", "respond">>
      [] req.path = "/next"     -> <<"stop", "prev_idx", "start", "respond">>
      [] req.path = "/prev"     -> <<"stop", "next_idx", "start", "respond">>
      [] req.path = "/vol_up"   -> <<"vol_up", "respond">>
      [] req.path = "/vol_down" -> <<"vol_down", "respond">>
      [] req.path = "/mute"     -> <<"mute", "respond">>
      [] req.path = "/mode"     ->
            <<"flip_mode", "stop", "clamp_idx", "start", "respond">>
      [] OTHER                  -> <<"respond">>

\* a handler that gives no answer to a path it does not know
HttpOps_silent(req) ==
    CASE req.path = ""          -> <<>>
      [] req.path = "/test"     -> <<"respond">>
      [] req.path = "/play"     -> <<"playpause", "respond">>
      [] req.path = "/pause"    -> <<"playpause", "respond">>
      [] req.path = "/next"     -> <<"stop", "next_idx", "start", "respond">>
      [] req.path = "/prev"     -> <<"stop", "prev_idx", "start", "respond">>
      [] req.path = "/vol_up"   -> <<"vol_up", "respond">>
      [] req.path = "/vol_down" -> <<"vol_down", "respond">>
      [] req.path = "/mute"     -> <<"mute", "respond">>
      [] req.path = "/mode"     ->
            <<"flip_mode", "stop", "clamp_idx", "start", "respond">>
      [] req.path = "/local"    -> <<"local_sel", "stop", "start", "respond">>
      [] req.path = "/"         -> <<"respond">>
      [] OTHER                  -> <<>>

\* the chain of strncmp tests in handle_http_request
HttpOps(req) ==
    CASE req.path = ""          -> <<>>
      [] req.path = "/test"     -> <<"respond">>
      [] req.path = "/play"     -> <<"playpause", "respond">>
      [] req.path = "/pause"    -> <<"playpause", "respond">>
      [] req.path = "/next"     -> <<"stop", "next_idx", "start", "respond">>
      [] req.path = "/prev"     -> <<"stop", "prev_idx", "start", "respond">>
      [] req.path = "/vol_up"   -> <<"vol_up", "respond">>
      [] req.path = "/vol_down" -> <<"vol_down", "respond">>
      [] req.path = "/mute"     -> <<"mute", "respond">>
      [] req.path = "/mode"     ->
            <<"flip_mode", "stop", "clamp_idx", "start", "respond">>
      [] req.path = "/local"    -> <<"local_sel", "stop", "start", "respond">>
      [] req.path = "/"         -> <<"respond">>
      [] OTHER                  -> <<"respond">>

\* a /local that takes the number of the request without the range test
LocalId_raw(req) == req.song

\* the index /local selects
LocalId(req) ==
    IF ~req.has THEN 0
    ELSE IF req.song < 0 \/ req.song >= NUM_SONGS THEN 0
    ELSE req.song

\* handle_next: current_song = (current_song + 1) % NUM_SONGS
next_song(i) == (i + 1) % NUM_SONGS

\* a handle_prev without the wrap at the first track
prev_song_nowrap(i) == i - 1

\* handle_prev: current_song = (current_song == 0) ? NUM_SONGS - 1 : current_song - 1
prev_song(i) == IF i = 0 THEN NUM_SONGS - 1 ELSE i - 1

\* a toggle_mode that leaves the mode as it is
flip_mode_stay(c) == c

\* toggle_mode: is_cloud = !is_cloud
flip_mode(c) == IF c = 0 THEN 1 ELSE 0

\* toggle_mode: the index is reduced modulo the length of the new catalog
clamp_song(cloud, i) == IF cloud = 1 THEN i % NUM_CLOUD ELSE i % NUM_SONGS

\* killall -q mpg123
kill_all_players(ps) ==
    [p \in DOMAIN ps |-> IF ps[p].kind = "mpg123"
                         THEN [ps[p] EXCEPT !.st = "zombie"] ELSE ps[p]]

\* kill(pid, SIGTERM): the player terminates
kill_term(ps, pid) ==
    [p \in DOMAIN ps |-> IF p = pid THEN [ps[p] EXCEPT !.st = "zombie"] ELSE ps[p]]

\* waitpid(pid, NULL, 0) returning: the child is reaped
reap(ps, pid) == [p \in DOMAIN ps \ {pid} |-> ps[p]]

Child(ss) == [st |-> "running",
              kind |-> IF ss.is_cloud = 1 THEN "sh" ELSE "mpg123",
              song |-> ss.current_song,
              cloud |-> ss.is_cloud]

Live == {p \in DOMAIN procs : procs[p].st = "running"}

loopFrame == UNCHANGED <<server, backlog, revents, mono_ms>>
drvFrame == UNCHANGED <<drvTime, queueVars, read_wait, rd, accepted, returned,
                        ndropped, lastpush>>

\* poll(pfd, 2, 200) returns with the readiness of both descriptors
D_poll ==
    /\ dpc = "poll"
    /\ revents' = [dev |-> DevicePollIn(buf_head, buf_tail), sock |-> SocketPollIn]
    /\ dpc' = "dev"
    /\ UNCHANGED <<sess, todo, server, backlog, cfd, nresp, procs, lastpid,
                   mono_ms, budget, cmd>>
    /\ drvFrame

\* if (pfd[0].revents & POLLIN) read(fd, &ev, 1)
D_dev ==
    /\ dpc = "dev"
    /\ IF revents.dev
       THEN /\ mid_read_call(Daemon, 1)
            /\ dpc' = "reading"
       ELSE /\ dpc' = "sock"
            /\ UNCHANGED <<queueVars, read_wait, rd, returned>>
    /\ readerFrame
    /\ UNCHANGED <<sess, todo, revents, server, backlog, cfd, nresp, procs,
                   lastpid, mono_ms, budget, cmd>>

\* a gap test that also drops the event read exactly 200 ms later
TooSoon_inclusive(now, last) == now - last <= EVENT_GAP_MS

\* if (now - last_event_ms < 200) continue;
TooSoon(now, last) == now - last < EVENT_GAP_MS

\* read() has returned: the consumer-side debounce and the switch
D_read_done ==
    /\ dpc = "reading"
    /\ rd[Daemon].pc = "idle"
    /\ IF rd[Daemon].ret = "1"
       THEN IF TooSoon(mono_ms, sess.last_event_ms)
            THEN /\ dpc' = "poll"
                 /\ UNCHANGED <<sess, todo, cmd>>
            ELSE /\ sess' = [sess EXCEPT !.last_event_ms = mono_ms]
                 /\ todo' = HwOps(rd[Daemon].ev) \o <<"goto_sock">>
                 /\ dpc' = "run"
                 /\ cmd' = [cmd EXCEPT !.log = Append(@, rd[Daemon].ev)]
       ELSE /\ dpc' = "sock"
            /\ UNCHANGED <<sess, todo, cmd>>
    /\ UNCHANGED <<revents, server, backlog, cfd, nresp, procs, lastpid,
                   mono_ms, budget>>
    /\ drvFrame

\* if (pfd[1].revents & POLLIN) accept, handle_http_request, close
D_sock ==
    /\ dpc = "sock"
    /\ IF revents.sock
       THEN /\ cfd' = Head(backlog)
            /\ backlog' = Tail(backlog)
            /\ nresp' = 0
            /\ todo' = HttpOps(Head(backlog)) \o <<"close">>
            /\ dpc' = "run"
       ELSE /\ dpc' = "poll"
            /\ UNCHANGED <<cfd, backlog, nresp, todo>>
    /\ UNCHANGED <<sess, revents, server, procs, lastpid, mono_ms, budget, cmd>>
    /\ drvFrame

\* one statement of the running handler
D_op ==
    /\ dpc = "run"
    /\ todo # <<>>
    /\ LET op == Head(todo)
           rest == Tail(todo)
           keep == UNCHANGED <<procs, lastpid, budget, dpc, cfd, nresp>>
           Only(ss) == sess' = ss /\ todo' = rest /\ keep
       IN
       CASE op = "playpause" ->
              /\ todo' = (IF sess.is_playing = 1 THEN <<"stop">> ELSE <<"start">>)
                            \o rest
              /\ UNCHANGED sess /\ keep
         [] op = "stop" ->
              /\ todo' = stop_playback_ops(sess.mpg_pid) \o rest
              /\ UNCHANGED sess /\ keep
         [] op = "start" ->
              /\ todo' = start_playback_ops(sess.mpg_pid) \o rest
              /\ UNCHANGED sess /\ keep
         [] op = "kill" ->
              /\ procs' = kill_term(procs, sess.mpg_pid)
              /\ todo' = rest
              /\ UNCHANGED <<sess, lastpid, budget, dpc, cfd, nresp>>
         [] op = "waitpid" ->
              \* blocks until the child has terminated
              /\ sess.mpg_pid \in DOMAIN procs => procs[sess.mpg_pid].st = "zombie"
              /\ procs' = reap(procs, sess.mpg_pid)
              /\ todo' = rest
              /\ UNCHANGED <<sess, lastpid, budget, dpc, cfd, nresp>>
         [] op = "clear_pid" -> Only([sess EXCEPT !.mpg_pid = -1])
         [] op = "killall" ->
              /\ procs' = kill_all_players(procs)
              /\ todo' = rest
              /\ UNCHANGED <<sess, lastpid, budget, dpc, cfd, nresp>>
         [] op = "not_playing" -> Only([sess EXCEPT !.is_playing = 0])
         [] op = "fork" ->
              /\ todo' = rest
              /\ UNCHANGED <<dpc, cfd, nresp>>
              /\ \/ /\ lastpid' = lastpid + 1
                    /\ procs' = [p \in DOMAIN procs \cup {lastpid + 1} |->
                                    IF p = lastpid + 1 THEN Child(sess) ELSE procs[p]]
                    /\ sess' = [sess EXCEPT !.mpg_pid = lastpid + 1]
                    /\ UNCHANGED budget
                 \/ /\ sess' = [sess EXCEPT !.mpg_pid = -1]
                    /\ UNCHANGED <<procs, lastpid, budget>>
         [] op = "set_playing" -> Only([sess EXCEPT !.is_playing = 1])
         [] op = "next_idx" ->
              Only([sess EXCEPT !.current_song = next_song(@)])
         [] op = "prev_idx" ->
              Only([sess EXCEPT !.current_song = prev_song(@)])
         [] op = "flip_mode" -> Only([sess EXCEPT !.is_cloud = flip_mode(@)])
         [] op = "clamp_idx" ->
              Only([sess EXCEPT !.current_song = clamp_song(sess.is_cloud, @)])
         [] op = "vol_up" -> Only(set_volume(sess, sess.current_volume + VOLUME_STEP))
         [] op = "vol_down" -> Only(set_volume(sess, sess.current_volume - VOLUME_STEP))
         [] op = "mute" -> Only(toggle_mute(sess))
         [] op = "local_sel" ->
              Only([sess EXCEPT !.is_cloud = 0, !.current_song = LocalId(cfd),
                                !.last_event_ms = 0])
         [] op = "respond" ->
              /\ nresp' = nresp + 1
              /\ todo' = rest
              /\ UNCHANGED <<sess, procs, lastpid, budget, dpc, cfd>>
         [] op = "close" ->
              /\ cfd' = NoClient
              /\ dpc' = "poll"
              /\ todo' = rest
              /\ UNCHANGED <<sess, procs, lastpid, budget, nresp>>
         [] op = "goto_sock" ->
              /\ dpc' = "sock"
              /\ todo' = rest
              /\ UNCHANGED <<sess, procs, lastpid, budget, cfd, nresp>>
    /\ loopFrame
    /\ drvFrame
    /\ UNCHANGED cmd

\* SIGINT or SIGTERM arrives.  main installs SIG_DFL for both, so the kernel
\* ends the daemon where it stands: no statement after the signal runs, its
\* descriptors are closed, its children live on
D_killed ==
    /\ dpc \notin {"off", "killed"}
    /\ dpc' = "killed"
    /\ todo' = <<>>
    /\ cfd' = NoClient
    /\ server' = "none"
    /\ backlog' = <<>>
    /\ UNCHANGED <<sess, revents, nresp, procs, lastpid, mono_ms, budget, cmd>>
    /\ drvFrame

\* the daemon's own steps inside mid_read
D_read == ReadStep(Daemon)

(***************************************************************************)
(* Environment of the daemon.                                              *)
(***************************************************************************)
\* a client connects to port 8888 and sends a request
Connect(req) ==
    /\ server = "listening"
    /\ budget.conn > 0
    /\ Spend("conn")
    /\ backlog' = Append(backlog, req)
    /\ UNCHANGED <<sess, dpc, todo, revents, server, cfd, nresp, procs, lastpid,
                   mono_ms, cmd>>
    /\ drvFrame

\* the player ends on its own (end of track, failed exec)
ChildExit(p) ==
    /\ p \in Live
    /\ procs' = [procs EXCEPT ![p].st = "zombie"]
    /\ UNCHANGED <<sess, dpc, todo, revents, server, backlog, cfd, nresp,
                   lastpid, mono_ms, budget, cmd>>
    /\ drvFrame

\* time passes
MsTick(d) ==
    /\ budget.ms > 0
    /\ Spend("ms")
    /\ mono_ms' = mono_ms + d
    /\ UNCHANGED <<sess, dpc, todo, revents, server, backlog, cfd, nresp, procs,
                   lastpid, cmd>>
    /\ drvFrame

InitSession == [current_song |-> 0, current_volume |-> VOLUME_INIT,
                is_playing |-> 0, is_muted |-> 0, is_cloud |-> 0,
                mpg_pid |-> -1, volume_before_mute |-> VOLUME_INIT,
                last_event_ms |-> 0, mixer |-> VOLUME_INIT]

\* ghost: nothing has been dispatched yet
NoCmd == [code |-> "none", req |-> NoClient, pre |-> InitSession, prelast |-> 0,
          preprocs |-> <<>>, pcode |-> "none", ppre |-> InitSession,
          taken |-> FALSE, hwat |-> -1, prevhw |-> -1, log |-> <<>>]

\* the daemon is not running
InitDaemonOff ==
    /\ sess = InitSession
    /\ dpc = "off"
    /\ todo = <<>>
    /\ revents = [dev |-> FALSE, sock |-> FALSE]
    /\ server = "none"
    /\ backlog = <<>>
    /\ cfd = NoClient
    /\ nresp = 0
    /\ procs = <<>>
    /\ lastpid = 0
    /\ mono_ms = BootMs
    /\ cmd = NoCmd

\* a main that gives up when start_http_server left no listening socket
InitDaemonOn_strict ==
    /\ sess = InitSession
    /\ server \in {"listening", "unbound", "none"}
    /\ dpc = (IF server = "listening" THEN "poll" ELSE "off")
    /\ todo = <<>>
    /\ revents = [dev |-> FALSE, sock |-> FALSE]
    /\ backlog = <<>>
    /\ cfd = NoClient
    /\ nresp = 0
    /\ procs = <<>>
    /\ lastpid = 0
    /\ mono_ms = BootMs
    /\ cmd = NoCmd

\* main has opened the device, set the volume and called start_http_server,
\* which left a listening socket, a socket that is not listening (bind or
\* listen failed) or no socket
InitDaemonOn ==
    /\ sess = InitSession
    /\ dpc = "poll"
    /\ todo = <<>>
    /\ revents = [dev |-> FALSE, sock |-> FALSE]
    /\ server \in {"listening", "unbound", "none"}
    /\ backlog = <<>>
    /\ cfd = NoClient
    /\ nresp = 0
    /\ procs = <<>>
    /\ lastpid = 0
    /\ mono_ms = BootMs
    /\ cmd = NoCmd

(***************************************************************************)
(* Spec: the event queue with one consumer; producers choose any code.     *)
(***************************************************************************)
Init ==
    /\ InitDriver({"r1"})
    /\ InitDaemonOff
    /\ last_clk_state = 1
    /\ budget = [NoBudget EXCEPT !.push = MaxPush, !.sig = MaxSignals,
                                 !.badlen = MaxBadLen]

Next ==
    \/ \E e \in QueueInputs : Produce(e)
    \/ \E r \in DOMAIN rd : ReadCall(r)
    \/ \E r \in DOMAIN rd : ReadCallZero(r)
    \/ \E r \in DOMAIN rd : ReadStep(r)
    \/ \E r \in DOMAIN rd : Signal(r)

Spec == Init /\ [][Next]_vars

(***************************************************************************)
(* SpecFill: a burst that fills the ring and wraps it.  Almost every event *)
(* is 'P'; a few other codes mark positions; the consumer reads a few      *)
(* times.                                                                  *)
(***************************************************************************)
BurstCommon ==
    /\ budget.push > 0
    /\ Spend("push")
    /\ queue_event("P")
    /\ UNCHANGED <<drvTime, returned>>
    /\ driverOnly

BurstRare(e) ==
    /\ budget.push > 0
    /\ budget.rare > 0
    /\ budget' = [budget EXCEPT !.push = @ - 1, !.rare = @ - 1]
    /\ queue_event(e)
    /\ UNCHANGED <<drvTime, returned>>
    /\ driverOnly

BurstReadCall(r) ==
    /\ budget.reads > 0
    /\ Spend("reads")
    /\ mid_read_call(r, 1)
    /\ readerFrame
    /\ driverOnly

InitFill ==
    /\ InitDriver({"r1"})
    /\ InitDaemonOff
    /\ last_clk_state = 1
    /\ budget = [NoBudget EXCEPT !.push = MaxBurst, !.rare = MaxRare,
                                 !.reads = MaxBurstReads]

NextFill ==
    \/ BurstCommon
    \/ \E e \in {"N"} : BurstRare(e)
    \/ \E r \in DOMAIN rd : BurstReadCall(r)
    \/ \E r \in DOMAIN rd : ReadStep(r)

SpecFill == InitFill /\ [][NextFill]_vars

(***************************************************************************)
(* SpecDebounce: the six interrupt lines against the clock.                *)
(***************************************************************************)
TickSteps == {1, msecs_to_jiffies(ENCODER_DEBOUNCE_MS),
              msecs_to_jiffies(DEBOUNCE_MS)}

Tick(d) ==
    /\ budget.ticks > 0
    /\ Spend("ticks")
    /\ jiffies' = jiffies + d
    /\ UNCHANGED <<last_time, last_clk_state, accept_log>>
    /\ NoPush
    /\ UNCHANGED returned
    /\ driverOnly

ButtonIrq(ch) ==
    /\ budget.irqs > 0
    /\ Spend("irqs")
    /\ button_isr(ch)
    /\ driverOnly

EncoderIrq(clk, dt) ==
    /\ budget.irqs > 0
    /\ Spend("irqs")
    /\ encoder_clk_isr(clk, dt)
    /\ driverOnly

InitDebounce ==
    /\ InitDriver({"r1"})
    /\ InitDaemonOff
    /\ budget = [NoBudget EXCEPT !.irqs = MaxIrqs, !.ticks = MaxTicks]

NextDebounce ==
    \/ \E d \in TickSteps : Tick(d)
    \/ \E ch \in Buttons : ButtonIrq(ch)
    \/ \E clk \in {0, 1}, dt \in {0, 1} : EncoderIrq(clk, dt)

SpecDebounce == InitDebounce /\ [][NextDebounce]_vars


(***************************************************************************)
(* SpecLive: the queue and its consumer under a fair scheduler: a reader   *)
(* task that can take a step of mid_read eventually takes it.  Producers   *)
(* and signals are under no obligation.                                    *)
(***************************************************************************)
InitLive ==
    /\ InitDriver({"r1"})
    /\ InitDaemonOff
    /\ last_clk_state = 1
    /\ budget = [NoBudget EXCEPT !.push = MaxLivePush, !.sig = MaxSignals]

NextLive ==
    \/ \E e \in QueueInputs : Produce(e)
    \/ ReadCall("r1")
    \/ ReadStep("r1")
    \/ Signal("r1")

SpecLive == InitLive /\ [][NextLive]_vars /\ WF_vars(ReadStep("r1"))

(***************************************************************************)
(* Properties of the event queue.                                          *)
(***************************************************************************)
IsPrefix(s, t) == Len(s) <= Len(t) /\ SubSeq(t, 1, Len(s)) = s

\* entries a reader has taken out of the ring and not yet handed to its caller
InFlight == Cardinality({r \in DOMAIN rd : rd[r].pc = "copy"})

\* accepted events no read has taken out yet
Pending == SubSeq(accepted, Len(returned) + InFlight + 1, Len(accepted))

\* the unread window of the ring, oldest first
QueueContent == [i \in 1 .. Unread |->
                    event_buffer[(buf_tail + i - 1) % EVENT_BUF_SIZE]]

PushCalled == budget'.push < budget.push

\* C1: with one consumer, the bytes returned by successive reads are the
\* accepted events in the order accepted: at every moment the returned
\* sequence is a prefix of the accepted one, and once the queue is drained
\* the two are equal.
C1_FIFO ==
    /\ IsPrefix(returned, accepted)
    /\ (Unread = 0 /\ InFlight = 0) => returned = accepted

C1_Witness ==
    /\ Len(returned) >= 3
    /\ returned = accepted
    /\ returned[1] # returned[2]
    /\ returned[2] # returned[3]

\* one step of the queue, seen from a queue_event call
C2_Step ==
    /\ (PushCalled /\ Unread = EVENT_BUF_SIZE - 1) =>
          /\ UNCHANGED <<event_buffer, buf_head, buf_tail, accepted>>
          /\ ndropped' = ndropped + 1
    /\ QueueContent' = Pending'

\* C2: a queue_event call that finds the queue full (EVENT_BUF_SIZE - 1
\* unread entries) changes neither event_buffer nor buf_head nor buf_tail and
\* stores nothing, and the unread window of the ring always holds exactly the
\* accepted events not yet read, so no unread entry is overwritten.
C2_DropWhenFull == [][C2_Step]_vars

C2_Witness ==
    /\ ndropped >= 1
    /\ ~lastpush.stored
    /\ Unread = EVENT_BUF_SIZE - 1
    /\ \E i \in 1 .. Len(accepted) : accepted[i] = "N"

\* C3 as claimed: from an empty queue 32 calls without a read are all
\* stored, and a call is dropped only with 32 events unread.
C3_Capacity32 ==
    /\ (Len(returned) + InFlight = 0 /\ budget.push = MaxBurst - EVENT_BUF_SIZE)
          => Len(accepted) = EVENT_BUF_SIZE
    /\ (lastpush.code # NUL /\ ~lastpush.stored)
          => lastpush.unread = EVENT_BUF_SIZE

\* C3 amended: the queue holds at most EVENT_BUF_SIZE - 1 = 31 events: a
\* queue_event call is stored exactly when fewer than 31 events are unread,
\* so from an empty queue 31 consecutive calls are stored and the 32nd is
\* dropped; the stored ones are returned by reads in order.
C3_Capacity31 ==
    /\ Unread <= EVENT_BUF_SIZE - 1
    /\ lastpush.code # NUL =>
          (lastpush.stored <=> lastpush.unread < EVENT_BUF_SIZE - 1)
    /\ (Len(returned) + InFlight = 0) =>
          Len(accepted) = IF MaxBurst - budget.push < EVENT_BUF_SIZE - 1
                          THEN MaxBurst - budget.push
                          ELSE EVENT_BUF_SIZE - 1
    /\ IsPrefix(returned, accepted)

C3_Witness ==
    /\ Len(returned) + InFlight = 0
    /\ budget.push = MaxBurst - EVENT_BUF_SIZE
    /\ Len(accepted) = EVENT_BUF_SIZE - 1
    /\ ndropped = 1

\* one step of the queue, seen from the consumer
C4_Step ==
    /\ buf_tail' # buf_tail => (Unread > 0 /\ Unread' = Unread - 1)
    /\ returned' # returned =>
          /\ Len(returned') = Len(returned) + 1
          /\ InFlight' = InFlight - 1
          /\ UNCHANGED <<event_buffer, buf_head, buf_tail>>
    /\ Unread' = Len(accepted') - Len(returned') - InFlight'
    /\ Len(returned') + InFlight' <= Len(accepted')

\* C4: with one consumer, every read that returns successfully hands over
\* exactly one byte and has taken exactly one entry out of the queue: the
\* step that moves buf_tail finds the queue non-empty and lowers the
\* occupancy by one, a return adds one byte, and the occupancy always equals
\* accepted minus taken; so a read of an empty queue cannot return before an
\* event is queued.
C4_ReadTakesOne == [][C4_Step]_vars

C4_Witness ==
    /\ rd["r1"].ret = "1"
    /\ rd["r1"].pc = "idle"
    /\ Len(returned) = 2
    /\ Unread = 1

\* the reader is inside wait_event_interruptible
Waiting(r) == rd[r].pc \in {"first_check", "prepare", "loop_check", "schedule"}

\* C5: under a fair scheduler, a consumer that is inside mid_read's wait
\* (before its first test, queued, testing again or asleep) while the queue
\* holds an event eventually returns from the read with an event.
C5_NoLostWakeup ==
    (Waiting("r1") /\ Unread > 0) ~> (rd["r1"].pc = "idle" /\ rd["r1"].ret = "1")

\* the consumer found the queue empty, an event arrived before it slept
C5_Witness ==
    /\ rd["r1"].pc = "schedule"
    /\ rd["r1"].task = "RUNNING"
    /\ ~rd["r1"].sig
    /\ Unread > 0

\* the read of r returns v in this step
Returns(r, v) == rd[r].pc # "idle" /\ rd'[r].pc = "idle" /\ rd'[r].ret = v

C6_Step ==
    /\ Returns("r1", "ERESTARTSYS") =>
          /\ rd["r1"].int /\ rd["r1"].sig
          /\ Unread = 0
          /\ UNCHANGED <<event_buffer, buf_head, buf_tail>>
    /\ (rd["r1"].pc = "loop_check" /\ rd["r1"].int /\ Unread = 0
           /\ rd'["r1"] # rd["r1"])
          => Returns("r1", "ERESTARTSYS")
    /\ QueueContent' = Pending'
    /\ IsPrefix(returned', accepted')

\* C6: a read whose wait is interrupted by a signal (signal pending, queue
\* empty when tested) returns -ERESTARTSYS without touching event_buffer,
\* buf_head or buf_tail, a read returns -ERESTARTSYS only then, and the ring
\* keeps holding exactly the accepted events not yet read, which later reads
\* return in order (none lost, none duplicated).
C6_InterruptedRead == [][C6_Step]_vars

C6_Witness ==
    /\ rd["r1"].ret = "ERESTARTSYS"
    /\ rd["r1"].pc = "idle"
    /\ Len(returned) >= 1
    /\ Unread >= 1

DaemonHwInputs == {"P", "C"}
DaemonRequests == {Request("/next", FALSE, 0), Request("/local", TRUE, 3)}
\* the clock moves by the consumer's debounce gap: two events are either
\* within the gap of each other or not
MsSteps == {EVENT_GAP_MS}

InitDaemon ==
    /\ InitDriver({Daemon})
    /\ last_clk_state = 1
    /\ InitDaemonOn
    /\ budget = [NoBudget EXCEPT !.push = MaxHw, !.conn = MaxConn, !.ms = MaxMsTicks]

NextDaemon ==
    \/ D_poll
    \/ D_dev
    \/ D_read
    \/ D_read_done
    \/ D_op
    \/ D_sock
    \/ \E e \in DaemonHwInputs : Produce(e)
    \/ \E req \in DaemonRequests : Connect(req)
    \/ \E p \in DOMAIN procs : ChildExit(p)
    \/ \E d \in MsSteps : MsTick(d)

SpecDaemon == InitDaemon /\ [][NextDaemon]_vars

(***************************************************************************)
(* SpecDaemonFair: the daemon under a fair scheduler.  The daemon process  *)
(* takes every step it can take: poll returns (it has a timeout), a        *)
(* runnable task inside mid_read goes on, a handler statement executes.    *)
(* Buttons and clients are under no obligation to do anything.             *)
(***************************************************************************)
InitDaemonFair ==
    /\ InitDriver({Daemon})
    /\ last_clk_state = 1
    /\ InitDaemonOn
    /\ budget = [NoBudget EXCEPT !.push = MaxFairHw, !.conn = MaxFairConn]

NextDaemonFair ==
    \/ D_poll
    \/ D_dev
    \/ D_read
    \/ D_read_done
    \/ D_op
    \/ D_sock
    \/ \E e \in DaemonHwInputs : Produce(e)
    \/ \E req \in DaemonRequests : Connect(req)

DaemonFairness ==
    /\ WF_vars(D_poll)
    /\ WF_vars(D_dev)
    /\ WF_vars(D_read)
    /\ WF_vars(D_read_done)
    /\ WF_vars(D_op)
    /\ WF_vars(D_sock)

SpecDaemonFair == InitDaemonFair /\ [][NextDaemonFair]_vars /\ DaemonFairness

(***************************************************************************)
(* Properties of the dispatch loop and of the player processes.            *)
(***************************************************************************)
\* the daemon task sleeps inside read()
DaemonBlocked ==
    dpc = "reading" /\ rd[Daemon].pc = "schedule" /\ rd[Daemon].task = "INTERRUPTIBLE"

C7_Step ==
    /\ (dpc = "poll" /\ dpc' = "dev") =>
            (revents'.dev <=> NonEmpty(buf_head, buf_tail))
    /\ ~DaemonBlocked'

\* C7: the readiness query on the device reports readable exactly when the
\* event queue is non-empty, and the read the dispatch loop issues after a
\* positive report never puts the daemon to sleep.
C7_ReadyIffNonEmpty == [][C7_Step]_vars

C8_ConnServed == SocketPollIn ~> (backlog = <<>> /\ cfd = NoClient)

C8_EventRead == NonEmpty(buf_head, buf_tail) ~> ~NonEmpty(buf_head, buf_tail)

\* C8: under a fair scheduler a connection pending on the listening socket is
\* eventually accepted, handled and closed, whatever the buttons do, and a
\* queued hardware event is eventually read, whatever the clients do.
C8_FairServicing == C8_ConnServed /\ C8_EventRead

\* C10: at every point of an execution the daemon has at most one child it
\* forked and has not reaped (so at most one live player), which also means
\* that start_playback never forks while an earlier child is unreaped.
C10_AtMostOnePlayer == Cardinality(DOMAIN procs) <= 1

\* a second player has been forked after the first was stopped and reaped,
\* and it is running
C10_Witness ==
    /\ lastpid >= 2
    /\ DOMAIN procs = {lastpid}
    /\ procs[lastpid].st = "running"
    /\ sess.mpg_pid = lastpid

\* ---------------------------------------------------------------------------
\* C11: between commands the player handle is valid (mpg_pid > 0) exactly when
\* the daemon records itself as playing (is_playing = 1), also after a spawn
\* that failed.
C11_HandleIffPlaying ==
    dpc # "run" => (sess.mpg_pid > 0 <=> sess.is_playing = 1)

(***************************************************************************)
(* SpecHandlers: the handlers of the daemon, one command after another.    *)
(* A command is one iteration of main's loop in which read() delivered an  *)
(* event byte that passed the gap test, or accept() delivered a request;   *)
(* its statements then run one by one (D_op).  The player may end on its   *)
(* own at any moment and fork may fail.  cmd remembers the command, the    *)
(* session it started from and the command before it, whether the command  *)
(* was passed to the switch (taken), and the read times of the last        *)
(* hardware event that was (hwat) and of the one before it (prevhw).       *)
(* cmd.log is written by D_read_done alone: the bytes read from the device *)
(* that main passed to the switch, in that order.                          *)
(***************************************************************************)
MaxCmds == 4

Dispatched(code, req) ==
    [code |-> code, req |-> req, pre |-> sess, prelast |-> lastpid,
     preprocs |-> procs, pcode |-> cmd.code, ppre |-> cmd.pre,
     taken |-> TRUE,
     hwat |-> IF req = NoClient THEN mono_ms' ELSE cmd.hwat,
     prevhw |-> cmd.hwat,
     log |-> cmd.log]

\* main 525-544: read() returned the byte ev, the gap since the last handled
\* event has passed, the switch runs
HwCommand(ev) ==
    /\ dpc = "poll"
    /\ mono_ms' = mono_ms + EVENT_GAP_MS
    /\ mono_ms' - sess.last_event_ms >= EVENT_GAP_MS
    /\ sess' = [sess EXCEPT !.last_event_ms = mono_ms']
    /\ todo' = HwOps(ev) \o <<"goto_sock">>
    /\ dpc' = "run"
    /\ cmd' = Dispatched(ev, NoClient)
    /\ UNCHANGED <<revents, server, backlog, cfd, nresp, procs, lastpid>>
    /\ drvFrame

\* an accept branch that stamps last_event_ms as the device branch does
HttpCommand_stamped(req) ==
    /\ dpc = "poll"
    /\ server = "listening"
    /\ cfd' = req
    /\ nresp' = 0
    /\ todo' = HttpOps(req) \o <<"close">>
    /\ dpc' = "run"
    /\ cmd' = Dispatched(req.path, req)
    /\ sess' = [sess EXCEPT !.last_event_ms = mono_ms]
    /\ UNCHANGED <<revents, server, backlog, procs, lastpid, mono_ms>>
    /\ drvFrame

\* main 549-555: accept() returned a connection that carries req
HttpCommand(req) ==
    /\ dpc = "poll"
    /\ server = "listening"
    /\ cfd' = req
    /\ nresp' = 0
    /\ todo' = HttpOps(req) \o <<"close">>
    /\ dpc' = "run"
    /\ cmd' = Dispatched(req.path, req)
    /\ UNCHANGED <<sess, revents, server, backlog, procs, lastpid, mono_ms>>
    /\ drvFrame

HandlerInputs == {"P", "N", "R", "C"}

InitHandlers ==
    /\ InitDriver({Daemon})
    /\ last_clk_state = 1
    /\ InitDaemonOn
    /\ server = "listening"
    /\ budget = [NoBudget EXCEPT !.cmds = MaxCmds]

HandlerCommand(ev) ==
    /\ budget.cmds > 0
    /\ Spend("cmds")
    /\ HwCommand(ev)

NextHandlers ==
    \/ \E ev \in HandlerInputs : HandlerCommand(ev)
    \/ D_op
    \/ D_sock
    \/ \E p \in DOMAIN procs : ChildExit(p)

SpecHandlers == InitHandlers /\ [][NextHandlers]_vars

\* a command has run to its end
CmdDone(code) == dpc # "run" /\ cmd.code = code

\* the command forked a child, and the fork succeeded
Spawned == lastpid > cmd.prelast

\* the session is Playing with exactly one player, forked by this command
\* for track i of catalog c
PlayingNew(i, c) ==
    /\ sess.is_playing = 1
    /\ sess.current_song = i
    /\ sess.is_cloud = c
    /\ lastpid = cmd.prelast + 1
    /\ sess.mpg_pid = lastpid
    /\ DOMAIN procs = {lastpid}
    /\ procs[lastpid].song = i
    /\ procs[lastpid].cloud = c

\* ---------------------------------------------------------------------------
\* C12: PLAY_PAUSE handled while the session is Stopped leaves it Playing with
\* the track index and the mode unchanged; it forks at most once, and when the
\* fork succeeds the new child is the only player and plays the current track
\* of the current mode.
C12_PlayFromStopped ==
    (CmdDone("P") /\ cmd.pre.is_playing = 0) =>
        /\ sess.is_playing = 1
        /\ sess.current_song = cmd.pre.current_song
        /\ sess.is_cloud = cmd.pre.is_cloud
        /\ lastpid <= cmd.prelast + 1
        /\ Spawned => PlayingNew(cmd.pre.current_song, cmd.pre.is_cloud)

\* a stopped session on a track other than the first was started
C12_Witness ==
    /\ CmdDone("P")
    /\ cmd.pre.is_playing = 0
    /\ cmd.pre.current_song # 0
    /\ Spawned
    /\ procs[sess.mpg_pid].st = "running"

\* ---------------------------------------------------------------------------
\* C13: PLAY_PAUSE handled while a player is running suspends it without
\* terminating it: after the command the daemon still holds the same child,
\* which the following PLAY_PAUSE would resume.
C13_PauseKeepsProcess ==
    (CmdDone("P") /\ cmd.pre.is_playing = 1 /\ cmd.pre.mpg_pid > 0) =>
        /\ cmd.pre.mpg_pid \in DOMAIN procs
        /\ sess.mpg_pid = cmd.pre.mpg_pid

\* the index NEXT or PREV has to select, from the index it started at
C14_Target ==
    IF cmd.code = "N" THEN (cmd.pre.current_song + 1) % NUM_SONGS
    ELSE (cmd.pre.current_song + NUM_SONGS - 1) % NUM_SONGS

\* ---------------------------------------------------------------------------
\* C14: NEXT moves the track index to (index + 1) mod NUM_SONGS and PREV to
\* (index - 1) mod NUM_SONGS, so PREV at track 0 selects the last track.  The
\* command ends Playing in the same mode, the player that ran before it is
\* terminated and reaped, and the child it forks is the only player and plays
\* the new track.
C14_NextPrev ==
    (CmdDone("N") \/ CmdDone("R")) =>
        /\ sess.current_song = C14_Target
        /\ sess.is_cloud = cmd.pre.is_cloud
        /\ sess.is_playing = 1
        /\ cmd.pre.mpg_pid > 0 => cmd.pre.mpg_pid \notin DOMAIN procs
        /\ lastpid <= cmd.prelast + 1
        /\ Spawned => PlayingNew(C14_Target, cmd.pre.is_cloud)
        /\ ~Spawned => DOMAIN procs = {}

\* PREV at the first track and then NEXT at the last one, each replacing a
\* running player
C14_Witness ==
    /\ CmdDone("N")
    /\ cmd.pre.current_song = NUM_SONGS - 1
    /\ cmd.pcode = "R"
    /\ cmd.ppre.current_song = 0
    /\ cmd.ppre.mpg_pid > 0
    /\ cmd.pre.mpg_pid > cmd.ppre.mpg_pid
    /\ Spawned
    /\ sess.current_song = 0

\* number of entries of the catalog of a mode
CatalogLen(c) == IF c = 1 THEN NUM_CLOUD ELSE NUM_SONGS

\* ---------------------------------------------------------------------------
\* C15: MODE_TOGGLE flips the source mode and leaves the track index inside
\* the new catalog (the old index modulo the new catalog's length); the player
\* that ran before it is terminated and reaped, the command ends Playing, and
\* the child it forks is the only player and plays from the new source.
C15_ModeToggle ==
    CmdDone("C") =>
        /\ sess.is_cloud = 1 - cmd.pre.is_cloud
        /\ sess.current_song \in 0..(CatalogLen(sess.is_cloud) - 1)
        /\ sess.current_song = cmd.pre.current_song % CatalogLen(sess.is_cloud)
        /\ sess.is_playing = 1
        /\ cmd.pre.mpg_pid > 0 => cmd.pre.mpg_pid \notin DOMAIN procs
        /\ lastpid <= cmd.prelast + 1
        /\ Spawned =>
              /\ PlayingNew(sess.current_song, sess.is_cloud)
              /\ procs[lastpid].kind = (IF sess.is_cloud = 1 THEN "sh" ELSE "mpg123")
        /\ ~Spawned => DOMAIN procs = {}

\* a running local player on a track other than the first is replaced by a
\* cloud stream, and a running cloud stream by a local player
C15_Witness ==
    /\ CmdDone("C")
    /\ cmd.pre.is_cloud = 1
    /\ cmd.pre.mpg_pid > 0
    /\ cmd.pcode = "C"
    /\ cmd.ppre.is_cloud = 0
    /\ cmd.ppre.mpg_pid > 0
    /\ cmd.ppre.current_song # 0
    /\ Spawned
    /\ procs[lastpid].st = "running"

(***************************************************************************)
(* SpecVolume: the volume handlers.  Commands are VOLUME_UP, VOLUME_DOWN   *)
(* and MUTE_TOGGLE in any order, each kind with its own budget, so that    *)
(* the number of commands of a kind handled so far is known.               *)
(***************************************************************************)
MaxUps == 50
MaxDowns == 5
MaxMutes == 2

InitVolume ==
    /\ InitDriver({Daemon})
    /\ last_clk_state = 1
    /\ InitDaemonOn
    /\ server = "listening"
    /\ budget = [NoBudget EXCEPT !.ups = MaxUps, !.downs = MaxDowns,
                                 !.mutes = MaxMutes]

VolumeUp ==
    /\ budget.ups > 0
    /\ Spend("ups")
    /\ HwCommand("U")

VolumeDown ==
    /\ budget.downs > 0
    /\ Spend("downs")
    /\ HwCommand("D")

MuteToggle ==
    /\ budget.mutes > 0
    /\ Spend("mutes")
    /\ HwCommand("M")

NextVolume ==
    \/ VolumeUp
    \/ VolumeDown
    \/ MuteToggle
    \/ D_op
    \/ D_sock

SpecVolume == InitVolume /\ [][NextVolume]_vars

UpsDone == MaxUps - budget.ups
DownsDone == MaxDowns - budget.downs
MutesDone == MaxMutes - budget.mutes

\* ---------------------------------------------------------------------------
\* C16: the volume percentage is always within [0, 100]; VOLUME_UP adds 5 and
\* VOLUME_DOWN subtracts 5, clamped to that range, and the result is what the
\* mixer is set to.  From the initial 75, k VOLUME_DOWN alone give 75 - 5k
\* (five give 50) and k VOLUME_UP alone give the smaller of 75 + 5k and 100
\* (fifty give 100).
C16_Volume ==
    /\ sess.current_volume \in 0..100
    /\ sess.mixer \in 0..100
    /\ CmdDone("U") =>
          /\ sess.current_volume =
                (IF cmd.pre.current_volume + 5 > 100 THEN 100
                 ELSE cmd.pre.current_volume + 5)
          /\ sess.mixer = sess.current_volume
    /\ CmdDone("D") =>
          /\ sess.current_volume =
                (IF cmd.pre.current_volume - 5 < 0 THEN 0
                 ELSE cmd.pre.current_volume - 5)
          /\ sess.mixer = sess.current_volume
    /\ (dpc # "run" /\ MutesDone = 0 /\ UpsDone = 0) =>
          sess.current_volume =
             (IF 75 - 5 * DownsDone < 0 THEN 0 ELSE 75 - 5 * DownsDone)
    /\ (dpc # "run" /\ MutesDone = 0 /\ DownsDone = 0) =>
          sess.current_volume =
             (IF 75 + 5 * UpsDone > 100 THEN 100 ELSE 75 + 5 * UpsDone)

\* fifty VOLUME_UP and nothing else have been handled, the last ones at the
\* upper limit
C16_Witness ==
    /\ CmdDone("U")
    /\ UpsDone = 50
    /\ DownsDone = 0
    /\ MutesDone = 0
    /\ cmd.pre.current_volume = 100
    /\ sess.current_volume = 100

\* ---------------------------------------------------------------------------
\* C17: two MUTE_TOGGLE commands in a row, the first handled while unmuted
\* at volume v, leave the session unmuted with the volume, and the mixer, at
\* exactly v.
C17_MuteRoundTrip ==
    (CmdDone("M") /\ cmd.pcode = "M" /\ cmd.ppre.is_muted = 0) =>
        /\ sess.is_muted = 0
        /\ sess.current_volume = cmd.ppre.current_volume
        /\ sess.mixer = cmd.ppre.current_volume

\* the round trip was made from a volume other than the initial one, through
\* a muted state with the mixer at 0
C17_Witness ==
    /\ CmdDone("M")
    /\ cmd.pcode = "M"
    /\ cmd.ppre.is_muted = 0
    /\ cmd.ppre.current_volume = 80
    /\ cmd.pre.is_muted = 1
    /\ cmd.pre.mixer = 0
    /\ sess.current_volume = 80

\* ---------------------------------------------------------------------------
\* C18: while the session is muted the volume the mixer is set to is 0, also
\* after VOLUME_UP or VOLUME_DOWN handled while muted.
C18_MutedMixerZero == sess.is_muted = 1 => sess.mixer = 0

(***************************************************************************)
(* SpecRemote: the HTTP handler, one request after another.  The requests  *)
(* are /local without a song, with a song inside the catalog and with one  *)
(* on either side of it, /cloud with a song, /mode and /next, which bring  *)
(* the session into Cloud mode and onto other tracks, a path the handler   *)
(* does not know, and a connection on which recv returns no data.          *)
(***************************************************************************)
MaxReqs == 3

RemoteRequests ==
    { Request("/local", FALSE, 0), Request("/local", TRUE, -1),
      Request("/local", TRUE, 0), Request("/local", TRUE, 3),
      Request("/local", TRUE, NUM_SONGS), Request("/cloud", TRUE, 2),
      Request("/mode", FALSE, 0), Request("/next", FALSE, 0),
      Request("/bogus", FALSE, 0), Request("", FALSE, 0) }

InitRemote ==
    /\ InitDriver({Daemon})
    /\ last_clk_state = 1
    /\ InitDaemonOn
    /\ server = "listening"
    /\ budget = [NoBudget EXCEPT !.cmds = MaxReqs]

RemoteCommand(req) ==
    /\ budget.cmds > 0
    /\ Spend("cmds")
    /\ HttpCommand(req)

NextRemote ==
    \/ \E req \in RemoteRequests : RemoteCommand(req)
    \/ D_op
    \/ \E p \in DOMAIN procs : ChildExit(p)

SpecRemote == InitRemote /\ [][NextRemote]_vars

\* ---------------------------------------------------------------------------
\* C19: after the request cloud?song=<index> is handled the source mode is
\* Cloud, the track index is <index> and the session is Playing.
C19_CloudSelect ==
    CmdDone("/cloud") =>
        /\ sess.is_cloud = 1
        /\ sess.current_song = cmd.req.song
        /\ sess.is_playing = 1

\* the index a /local request asks for: its song when it names one inside
\* the local catalog, the first track otherwise
C20_Target ==
    IF cmd.req.has /\ cmd.req.song >= 0 /\ cmd.req.song < NUM_SONGS
    THEN cmd.req.song ELSE 0

\* ---------------------------------------------------------------------------
\* C20: after the request local?song=<index> is handled the source mode is
\* Local and the track index is <index> when 0 <= index < NUM_SONGS, and 0
\* when it is out of range or absent; the player that ran before the request
\* is terminated and reaped, the session is Playing, the child forked by the
\* request is the only player and plays the selected local track, and at no
\* moment is there more than one player.
C20_LocalSelect ==
    /\ Cardinality(DOMAIN procs) <= 1
    /\ CmdDone("/local") =>
          /\ sess.is_cloud = 0
          /\ sess.current_song = C20_Target
          /\ sess.is_playing = 1
          /\ cmd.pre.mpg_pid > 0 => cmd.pre.mpg_pid \notin DOMAIN procs
          /\ lastpid <= cmd.prelast + 1
          /\ Spawned =>
                /\ PlayingNew(C20_Target, 0)
                /\ procs[lastpid].kind = "mpg123"
          /\ ~Spawned => DOMAIN procs = {}
          /\ nresp = 1

\* /local?song=3 replaced a running cloud stream by the local player of
\* track 3
C20_Witness ==
    /\ CmdDone("/local")
    /\ cmd.req.has
    /\ cmd.req.song = 3
    /\ cmd.pre.is_cloud = 1
    /\ cmd.pre.mpg_pid > 0
    /\ Spawned
    /\ procs[lastpid].st = "running"
    /\ procs[lastpid].song = 3

(***************************************************************************)
(* SpecSymmetry: hardware and remote commands mixed.  Every device byte    *)
(* and every HTTP path that names the same operation can be the next       *)
(* command of a run.                                                       *)
(***************************************************************************)
MaxSymCmds == 3

SymBytes == {"P", "N", "R", "U", "D", "M", "C"}
SymPaths == {"/play", "/next", "/prev", "/vol_up", "/vol_down", "/mute", "/mode"}

InitSymmetry ==
    /\ InitDriver({Daemon})
    /\ last_clk_state = 1
    /\ InitDaemonOn
    /\ server = "listening"
    /\ budget = [NoBudget EXCEPT !.cmds = MaxSymCmds]

SymHw(ev) ==
    /\ budget.cmds > 0
    /\ Spend("cmds")
    /\ HwCommand(ev)

SymHttp(path) ==
    /\ budget.cmds > 0
    /\ Spend("cmds")
    /\ HttpCommand(Request(path, FALSE, 0))

NextSymmetry ==
    \/ \E ev \in SymBytes : SymHw(ev)
    \/ \E path \in SymPaths : SymHttp(path)
    \/ D_op
    \/ D_sock
    \/ \E p \in DOMAIN procs : ChildExit(p)

SpecSymmetry == InitSymmetry /\ [][NextSymmetry]_vars

\* the whole handler at once: the statements ops applied in order to
\* st = [sess, procs, lastpid]; ok tells whether fork() returns a pid
RECURSIVE HandlerResult(_, _, _)
HandlerResult(ops, st, ok) ==
    IF ops = <<>> THEN st
    ELSE LET op == Head(ops)
             rest == Tail(ops)
             ss == st.sess
             S(x) == [st EXCEPT !.sess = x]
         IN
         CASE op = "playpause" ->
                HandlerResult((IF ss.is_playing = 1 THEN <<"stop">> ELSE <<"start">>)
                                 \o rest, st, ok)
           [] op = "stop" ->
                HandlerResult(stop_playback_ops(ss.mpg_pid) \o rest, st, ok)
           [] op = "start" ->
                HandlerResult(start_playback_ops(ss.mpg_pid) \o rest, st, ok)
           [] op = "kill" ->
                HandlerResult(rest, [st EXCEPT !.procs = kill_term(@, ss.mpg_pid)], ok)
           [] op = "waitpid" ->
                HandlerResult(rest, [st EXCEPT !.procs = reap(@, ss.mpg_pid)], ok)
           [] op = "clear_pid" ->
                HandlerResult(rest, S([ss EXCEPT !.mpg_pid = -1]), ok)
           [] op = "killall" ->
                HandlerResult(rest, [st EXCEPT !.procs = kill_all_players(@)], ok)
           [] op = "not_playing" ->
                HandlerResult(rest, S([ss EXCEPT !.is_playing = 0]), ok)
           [] op = "fork" ->
                HandlerResult(rest,
                    IF ok
                    THEN [sess |-> [ss EXCEPT !.mpg_pid = st.lastpid + 1],
                          procs |-> [p \in DOMAIN st.procs \cup {st.lastpid + 1} |->
                                        IF p = st.lastpid + 1 THEN Child(ss)
                                        ELSE st.procs[p]],
                          lastpid |-> st.lastpid + 1]
                    ELSE S([ss EXCEPT !.mpg_pid = -1]), ok)
           [] op = "set_playing" ->
                HandlerResult(rest, S([ss EXCEPT !.is_playing = 1]), ok)
           [] op = "next_idx" ->
                HandlerResult(rest, S([ss EXCEPT !.current_song = next_song(@)]), ok)
           [] op = "prev_idx" ->
                HandlerResult(rest, S([ss EXCEPT !.current_song = prev_song(@)]), ok)
           [] op = "flip_mode" ->
                HandlerResult(rest, S([ss EXCEPT !.is_cloud = flip_mode(@)]), ok)
           [] op = "clamp_idx" ->
                HandlerResult(rest,
                    S([ss EXCEPT !.current_song = clamp_song(ss.is_cloud, @)]), ok)
           [] op = "vol_up" ->
                HandlerResult(rest, S(set_volume(ss, ss.current_volume + VOLUME_STEP)), ok)
           [] op = "vol_down" ->
                HandlerResult(rest, S(set_volume(ss, ss.current_volume - VOLUME_STEP)), ok)
           [] op = "mute" ->
                HandlerResult(rest, S(toggle_mute(ss)), ok)
           [] OTHER -> HandlerResult(rest, st, ok)

\* the Playback Session of a state: run state, handle, index, mode, volume
\* and mute; the debounce timestamp is not part of it, and neither is
\* whether a child that was not reaped is still running
SessionView(st) ==
    [sess |-> [st.sess EXCEPT !.last_event_ms = 0],
     procs |-> [p \in DOMAIN st.procs |-> [st.procs[p] EXCEPT !.st = "any"]],
     lastpid |-> st.lastpid]

\* the device byte an HTTP path stands for
ByteOf(code) ==
    CASE code = "/play" -> "P"
      [] code = "/next" -> "N"
      [] code = "/prev" -> "R"
      [] code = "/vol_up" -> "U"
      [] code = "/vol_down" -> "D"
      [] code = "/mute" -> "M"
      [] code = "/mode" -> "C"
      [] OTHER -> code

\* what the device byte of the last command gives from the state the
\* command started in
HwReference ==
    HandlerResult(HwOps(ByteOf(cmd.code)),
                  [sess |-> cmd.pre, procs |-> cmd.preprocs, lastpid |-> cmd.prelast],
                  Spawned)

\* ---------------------------------------------------------------------------
\* C21: a command given as HTTP path /play, /next, /prev, /vol_up, /vol_down,
\* /mute or /mode leaves the Playback Session in the state that the device
\* byte P, N, R, U, D, M or C leaves it in from the same state.
C21_Symmetric ==
    (dpc # "run" /\ cmd.code \in SymBytes \cup SymPaths) =>
        SessionView([sess |-> sess, procs |-> procs, lastpid |-> lastpid])
            = SessionView(HwReference)

\* /mode was handled right after a hardware NEXT, with a player running, and
\* started the stream
C21_Witness ==
    /\ CmdDone("/mode")
    /\ cmd.pcode = "N"
    /\ cmd.pre.mpg_pid > 0
    /\ cmd.pre.current_song = 1
    /\ Spawned
    /\ sess.is_cloud = 1
    /\ nresp = 1

\* the paths that name a command of the state machine
CommandPaths == SymPaths \cup {"/pause", "/local"}

\* the children of the daemon, whether still running or not
Children(ps) == [p \in DOMAIN ps |-> [ps[p] EXCEPT !.st = "any"]]

\* the last command was a connection accepted on the control port
ConnDone == dpc # "run" /\ cmd.req # NoClient

\* ---------------------------------------------------------------------------
\* C22: every accepted connection on which a request arrived is answered
\* with exactly one response and then closed; a connection on which recv
\* returned no data is closed without a response.  A request whose path names
\* no command is answered too and leaves the session, the children and the
\* pid counter as they were.
C22_OneResponse ==
    /\ nresp <= 1
    /\ ConnDone =>
          /\ cfd = NoClient
          /\ nresp = (IF cmd.req.path = "" THEN 0 ELSE 1)
          /\ cmd.req.path \notin CommandPaths =>
                /\ sess = cmd.pre
                /\ Children(procs) = Children(cmd.preprocs)
                /\ lastpid = cmd.prelast

\* C22 as stated: every accepted connection is answered with exactly one
\* response and then closed.
C22_AlwaysAnswered ==
    ConnDone => (cfd = NoClient /\ nresp = 1)

\* a request for an unknown path was answered and closed while a player was
\* running
C22_Witness ==
    /\ ConnDone
    /\ cmd.req.path = "/bogus"
    /\ cmd.pre.mpg_pid > 0
    /\ cmd.pre.is_cloud = 1
    /\ nresp = 1
    /\ cfd = NoClient
    /\ sess.mpg_pid \in DOMAIN procs

(***************************************************************************)
(* SpecShutdown: the handlers with a termination signal.  The signal may   *)
(* arrive between any two statements of the daemon.  The statements after  *)
(* main's loop (stop_playback, close) are not an action: the loop ends     *)
(* only when running is 0, and nothing in the program assigns to it.       *)
(***************************************************************************)
ShutdownInputs == {"P", "N"}

ShutdownCommand(ev) ==
    /\ budget.cmds > 0
    /\ Spend("cmds")
    /\ HwCommand(ev)

NextShutdown ==
    \/ \E ev \in ShutdownInputs : ShutdownCommand(ev)
    \/ D_op
    \/ D_sock
    \/ \E p \in DOMAIN procs : ChildExit(p)
    \/ D_killed

SpecShutdown == InitHandlers /\ [][NextShutdown]_vars

\* ---------------------------------------------------------------------------
\* C23: when a termination signal has ended the daemon, the player that was
\* active has been terminated and reaped: no child is left, the handle is
\* cleared and the session is Stopped.
C23_ShutdownReaps ==
    dpc = "killed" =>
        /\ DOMAIN procs = {}
        /\ sess.mpg_pid = -1
        /\ sess.is_playing = 0

(***************************************************************************)
(* SpecExitFair: the daemon under a fair scheduler, with players that end  *)
(* on their own.  Fairness is that of SpecDaemonFair: the daemon takes     *)
(* every step it can take; buttons, clients and players owe nothing.       *)
(***************************************************************************)
NextExitFair ==
    \/ D_poll
    \/ D_dev
    \/ D_read
    \/ D_read_done
    \/ D_op
    \/ D_sock
    \/ \E e \in DaemonHwInputs : Produce(e)
    \/ \E req \in DaemonRequests : Connect(req)
    \/ \E p \in DOMAIN procs : ChildExit(p)

SpecExitFair == InitDaemonFair /\ [][NextExitFair]_vars /\ DaemonFairness

\* the session is Playing and its player has ended without being reaped
DeadPlayer ==
    /\ sess.is_playing = 1
    /\ sess.mpg_pid \in DOMAIN procs
    /\ procs[sess.mpg_pid].st = "zombie"

\* ---------------------------------------------------------------------------
\* C24: whenever the session is Playing and its player has ended, the session
\* eventually leaves Playing for that dead process: it becomes Stopped or has
\* a live player again.
C24_ExitDetected == DeadPlayer ~> ~DeadPlayer

\* the last command called start_playback with no handle, so that it forked
StartAttempted ==
    \/ CmdDone("N")
    \/ CmdDone("R")
    \/ CmdDone("C")
    \/ CmdDone("P") /\ cmd.pre.is_playing = 0

\* ---------------------------------------------------------------------------
\* C25: when starting the player fails, the session is left Stopped: after a
\* command whose fork() failed there is no process handle and is_playing
\* is 0.
C25_SpawnFailureStopped ==
    (StartAttempted /\ ~Spawned) =>
        /\ sess.mpg_pid <= 0
        /\ sess.is_playing = 0

\* the last command found the session Playing with a player that had
\* already ended
FoundDeadPlayer ==
    /\ cmd.pre.is_playing = 1
    /\ cmd.pre.mpg_pid \in DOMAIN cmd.preprocs
    /\ cmd.preprocs[cmd.pre.mpg_pid].st = "zombie"

\* ---------------------------------------------------------------------------
\* C26: a PLAY_PAUSE that finds the player already exited does not keep the
\* stale state: the dead process is cleared and a fresh start is made, so
\* that the command ends Playing.
C26_DeadPlayerRestart ==
    (CmdDone("P") /\ FoundDeadPlayer) =>
        /\ cmd.pre.mpg_pid \notin DOMAIN procs
        /\ sess.is_playing = 1

\* start_http_server left no listening socket
ListenerFailed == server # "listening"

\* the last hardware event was passed to the switch at the present time
DispatchedNow == sess.last_event_ms = mono_ms

\* ---------------------------------------------------------------------------
\* C27: when the HTTP socket could not be created, bound or put to listen,
\* the daemon keeps running without ever accepting a connection, and under a
\* fair scheduler every hardware event in the queue is read and dispatched
\* to the state machine.
C27_ListenerFailure ==
    /\ [](ListenerFailed => (dpc \notin {"off", "killed"} /\ cfd = NoClient))
    /\ (ListenerFailed /\ NonEmpty(buf_head, buf_tail))
          ~> (~NonEmpty(buf_head, buf_tail) /\ DispatchedNow)

\* with a socket that is not listening a button press has started the player
C27_Witness ==
    /\ server = "unbound"
    /\ ~NonEmpty(buf_head, buf_tail)
    /\ DispatchedNow
    /\ dpc # "run"
    /\ sess.is_playing = 1
    /\ sess.mpg_pid \in Live

(***************************************************************************)
(* SpecChange: the commands that replace the player: NEXT, PREV and        *)
(* MODE_TOGGLE from the device and /local from the control port.           *)
(***************************************************************************)
ChangeInputs == {"N", "R", "C"}
ChangeRequests == {Request("/local", TRUE, 3)}

ChangeHw(ev) ==
    /\ budget.cmds > 0
    /\ Spend("cmds")
    /\ HwCommand(ev)

ChangeHttp(req) ==
    /\ budget.cmds > 0
    /\ Spend("cmds")
    /\ HttpCommand(req)

NextChange ==
    \/ \E ev \in ChangeInputs : ChangeHw(ev)
    \/ \E req \in ChangeRequests : ChangeHttp(req)
    \/ D_op
    \/ D_sock
    \/ \E p \in DOMAIN procs : ChildExit(p)

SpecChange == InitHandlers /\ [][NextChange]_vars

MaxGapCmds == 4

GapInputs == {"N", "U"}
GapRequests == {Request("/local", TRUE, 3)}
\* time between one read and the next: almost none, just under the gap, the
\* gap
GapSteps == {1, EVENT_GAP_MS - 1, EVENT_GAP_MS}

\* main 525-544: read() returned the byte ev, d ms after the daemon was last
\* here; the gap test either passes the event to the switch or drops it
HwEvent(ev, d) ==
    /\ dpc = "poll"
    /\ budget.cmds > 0
    /\ Spend("cmds")
    /\ mono_ms' = mono_ms + d
    /\ IF TooSoon(mono_ms', sess.last_event_ms)
       THEN /\ UNCHANGED <<sess, todo, dpc>>
            /\ cmd' = [Dispatched(ev, NoClient) EXCEPT !.taken = FALSE,
                                                       !.hwat = cmd.hwat]
       ELSE /\ sess' = [sess EXCEPT !.last_event_ms = mono_ms']
            /\ todo' = HwOps(ev) \o <<"goto_sock">>
            /\ dpc' = "run"
            /\ cmd' = Dispatched(ev, NoClient)
    /\ UNCHANGED <<revents, server, backlog, cfd, nresp, procs, lastpid>>
    /\ drvFrame

GapHttp(req) ==
    /\ budget.cmds > 0
    /\ Spend("cmds")
    /\ HttpCommand(req)

InitGap ==
    /\ InitDriver({Daemon})
    /\ last_clk_state = 1
    /\ InitDaemonOn
    /\ server = "listening"
    /\ budget = [NoBudget EXCEPT !.cmds = MaxGapCmds]

NextGap ==
    \/ \E ev \in GapInputs, d \in GapSteps : HwEvent(ev, d)
    \/ \E req \in GapRequests : GapHttp(req)
    \/ D_op
    \/ D_sock

SpecGap == InitGap /\ [][NextGap]_vars

\* the last thing the daemon did was to read a hardware event and, if it
\* passed the gap test, to run its handler to the end
HwEventDone == dpc # "run" /\ cmd.code \in GapInputs

\* ---------------------------------------------------------------------------
\* C29: a hardware event read less than 200 ms after the time held in
\* last_event_ms is not dispatched and leaves the session, the players and
\* last_event_ms unchanged; an event read 200 ms or more after it is
\* dispatched and sets last_event_ms to its read time, whichever channels
\* the events came from.  last_event_ms is the read time of the previous
\* accepted hardware event, or 0 once /local has been handled after it.
C29_GapRule ==
    /\ sess.last_event_ms \in {0, cmd.hwat}
    /\ (cmd.code # "/local" /\ cmd.hwat >= 0) => sess.last_event_ms = cmd.hwat
    /\ (dpc # "run" /\ cmd.code = "/local") => sess.last_event_ms = 0
    /\ HwEventDone =>
          IF mono_ms - cmd.pre.last_event_ms < 200
          THEN /\ ~cmd.taken
               /\ sess = cmd.pre
               /\ procs = cmd.preprocs
               /\ lastpid = cmd.prelast
          ELSE /\ cmd.taken
               /\ sess.last_event_ms = mono_ms

\* C29 as stated: an event read less than 200 ms after the previous accepted
\* hardware event is never dispatched.
C29_GapSinceAccepted ==
    (HwEventDone /\ cmd.prevhw >= 0 /\ mono_ms - cmd.prevhw < 200) => ~cmd.taken

\* a volume event read 199 ms after an accepted NEXT was dropped
C29_Witness ==
    /\ HwEventDone
    /\ cmd.code = "U"
    /\ cmd.pcode = "N"
    /\ ~cmd.taken
    /\ mono_ms - cmd.hwat = 199
    /\ sess.current_volume = VOLUME_INIT
    /\ sess.current_song = 1
    /\ sess.last_event_ms = cmd.hwat

\* s can be obtained from t by leaving elements out
RECURSIVE IsSubseq(_, _)
IsSubseq(s, t) ==
    IF s = <<>> THEN TRUE
    ELSE IF t = <<>> THEN FALSE
    ELSE IF Head(s) = Head(t) THEN IsSubseq(Tail(s), Tail(t))
    ELSE IsSubseq(s, Tail(t))

\* the daemon starts a command: main calls a handler
CommandBegins == dpc # "run" /\ dpc' = "run"

\* ---------------------------------------------------------------------------
\* C30: the event codes passed to the state machine are, in the same order,
\* a subsequence of the events the queue accepted, every accepted event being
\* read at most once and in the order accepted (exactly once when the queue
\* is drained); and a command, hardware or remote, begins only when no
\* statement of an earlier command is left, and while it runs nothing is
\* read from the device and no other connection is taken.
C30_OrderedSerial ==
    /\ [](/\ IsSubseq(cmd.log, returned)
          /\ IsPrefix(returned, accepted)
          /\ (Unread = 0 /\ InFlight = 0) => returned = accepted
          /\ todo # <<>> => dpc = "run")
    /\ [][ /\ CommandBegins => todo = <<>>
           /\ cmd'.log # cmd.log =>
                 /\ CommandBegins
                 /\ Len(returned) > 0
                 /\ cmd'.log = Append(cmd.log, returned[Len(returned)])
           /\ dpc = "run" =>
                 /\ returned' = returned
                 /\ buf_tail' = buf_tail
                 /\ (cfd' = cfd \/ cfd' = NoClient)
                 /\ Len(backlog') >= Len(backlog) ]_vars

\* PLAY_PAUSE and then MODE_TOGGLE were accepted by the queue, read and
\* dispatched in that order, each handler running to its end
C30_Witness ==
    /\ dpc # "run"
    /\ accepted = <<"P", "C">>
    /\ returned = accepted
    /\ cmd.log = accepted
    /\ sess.is_cloud = 1
    /\ sess.is_playing = 1

(***************************************************************************)
(* Claims C31..C39.                                                        *)
(***************************************************************************)
\* SpecLines: the interrupt lines of two buttons and of the encoder clock
\* against the clock
MaxLineIrqs == 3
MaxLineTicks == 2

LineButtons == {"play", "next"}

LineIrq(ch) ==
    /\ ch \in LineButtons
    /\ ButtonIrq(ch)

InitLines ==
    /\ InitDriver({"r1"})
    /\ InitDaemonOff
    /\ budget = [NoBudget EXCEPT !.irqs = MaxLineIrqs, !.ticks = MaxLineTicks]

NextLines ==
    \/ \E d \in TickSteps : Tick(d)
    \/ \E ch \in LineButtons : LineIrq(ch)
    \/ \E clk \in {0, 1}, dt \in {0, 1} : EncoderIrq(clk, dt)

SpecLines == InitLines /\ [][NextLines]_vars

\* C31: an encoder clock interrupt that passes the 40 ms debounce records the
\* sampled clock level, and queues an event only when the level recorded
\* before was high and the sampled one is low: 'U' when the data line is
\* high, 'D' when it is low; any other accepted edge, a rising one included,
\* leaves the queue as it was.
C31_EncoderDirection ==
    [][\A clk \in {0, 1}, dt \in {0, 1} :
          (EncoderIrq(clk, dt) /\ DebounceOk("encoder", jiffies)) =>
              /\ last_clk_state' = clk
              /\ IF last_clk_state = 1 /\ clk = 0
                 THEN /\ lastpush'.code = (IF dt = 1 THEN "U" ELSE "D")
                      /\ HasRoom(buf_head, buf_tail) =>
                            accepted' = Append(accepted, lastpush'.code)
                 ELSE UNCHANGED <<accepted, ndropped, lastpush,
                                  event_buffer, buf_head, buf_tail>>]_vars

C31_Witness ==
    /\ \E i \in DOMAIN accepted : accepted[i] = "U"
    /\ \E j \in DOMAIN accepted : accepted[j] = "D"
    /\ last_clk_state = 0

(***************************************************************************)
(* SpecStop: commands against a player that may survive SIGTERM (a signal  *)
(* it blocks or handles without exiting, a task stopped or stuck in the    *)
(* audio device).  The handler's statements are scheduled fairly; nothing  *)
(* obliges the player to end on its own.                                   *)
(***************************************************************************)
StopInputs == {"P", "N"}

\* stop_playback 250: kill(mpg_pid, SIGTERM) returns 0 and the player lives on
D_kill_survived ==
    /\ dpc = "run"
    /\ todo # <<>>
    /\ Head(todo) = "kill"
    /\ sess.mpg_pid \in Live
    /\ todo' = Tail(todo)
    /\ UNCHANGED <<sess, procs, lastpid, budget, dpc, cfd, nresp, cmd>>
    /\ loopFrame
    /\ drvFrame

StopCommand(ev) ==
    /\ ev \in StopInputs
    /\ HandlerCommand(ev)

NextStop ==
    \/ \E ev \in StopInputs : StopCommand(ev)
    \/ D_op
    \/ D_kill_survived
    \/ D_sock
    \/ \E p \in DOMAIN procs : ChildExit(p)

StopFairness == WF_vars(D_op) /\ WF_vars(D_sock)

SpecStop == InitHandlers /\ [][NextStop]_vars /\ StopFairness

\* stop_playback has signalled the player and has not returned yet
InStop ==
    /\ dpc = "run"
    /\ \E i \in DOMAIN todo : todo[i] = "waitpid"

\* ---------------------------------------------------------------------------
\* C32: stop_playback always returns: whenever it has sent the termination
\* request and waits for the player, it eventually gets past the wait, also
\* when the player does not exit on SIGTERM.
C32_StopReturns == InStop ~> ~InStop

(***************************************************************************)
(* SpecReaper: the remote-control variant of the daemon.  It drives one    *)
(* mpg123 -R process through a pipe and reaps it in a SIGCHLD handler,     *)
(* which the kernel may run between any two statements of main.  The       *)
(* variant keeps its globals in sess, its children in procs and the        *)
(* statements still to run in todo; the driver and the HTTP side are idle. *)
(* The globals are read afresh at every statement: library calls lie       *)
(* between any two uses, and the handler is reachable from them.           *)
(***************************************************************************)
NUM_SONGS_RC == 6
\* commands and poll timeouts in one run
MaxRcCmds == 3
MaxRcTimeouts == 1

RcInputs == {"P", "N", "R"}

\* globals of the variant after their initialisers
InitRcSession == [current_song |-> 0, mpg123_pid |-> -1, mpg123_stdin |-> -1,
                  is_playing |-> 0, is_paused |-> 0]

\* ghost: the event handled last, the globals when it was dispatched, and the
\* pid arguments its stop_playback passed to kill and to waitpid
NoRcCmd == [code |-> "none", pre |-> InitRcSession, player |-> -1,
            killed |-> <<>>, waited |-> <<>>, warg |-> 0]

\* descriptor that pipe() hands out for the write end
PipeFd == 5

rc_next_song(i) == (i + 1) % NUM_SONGS_RC
rc_prev_song(i) == IF i = 0 THEN NUM_SONGS_RC - 1 ELSE i - 1

\* statements of stop_playback, chosen by its test of mpg123_pid
rc_stop_playback_ops(pid) ==
    (IF pid > 0 THEN <<"quit", "sleep", "rc_kill", "rc_waitpid", "rc_clear_pid">>
     ELSE <<>>)
        \o <<"close_stdin", "flags_off">>

\* statements of start_playback, chosen by its test of mpg123_pid
rc_start_playback_ops(pid) ==
    IF pid > 0 THEN <<>> ELSE <<"rc_fork", "set_stdin", "load", "rc_set_playing">>

\* handle_play_pause, with pause_playback and resume_playback
rc_handle_play_pause_ops(ss) ==
    IF ss.mpg123_pid <= 0 THEN <<"rc_start">>
    ELSE IF ss.is_paused = 1 THEN <<"rc_resume">>
    ELSE <<"rc_pause">>

\* the switch on the event byte in main
RcOps(ev) ==
    CASE ev = "P" -> <<"rc_playpause", "notify">>
      [] ev = "N" -> <<"rc_stop", "rc_next_idx", "rc_start", "notify">>
      [] ev = "R" -> <<"rc_stop", "rc_prev_idx", "rc_start", "notify">>
      [] OTHER -> <<>>

rcFrame ==
    /\ UNCHANGED <<revents, server, backlog, cfd, nresp, mono_ms>>
    /\ drvFrame

\* sigchld_handler: every terminated child is reaped; when the player is among
\* them the handle and the flags are reset and the track index advances
sigchld_handler ==
    /\ \E p \in DOMAIN procs : procs[p].st = "zombie"
    /\ procs' = [p \in Live |-> procs[p]]
    /\ sess' = IF sess.mpg123_pid \in DOMAIN procs /\ sess.mpg123_pid \notin Live
               THEN [sess EXCEPT !.mpg123_stdin = -1, !.mpg123_pid = -1,
                                 !.is_playing = 0, !.is_paused = 0,
                                 !.current_song = rc_next_song(@)]
               ELSE sess
    /\ UNCHANGED <<dpc, todo, lastpid, budget, cmd>>
    /\ rcFrame

\* one statement of the running handler
RC_op ==
    /\ dpc = "run"
    /\ todo # <<>>
    /\ LET op == Head(todo)
           rest == Tail(todo)
           pid == sess.mpg123_pid
           Only(ss) == /\ sess' = ss /\ todo' = rest
                       /\ UNCHANGED <<procs, lastpid, budget, dpc, cmd>>
           Skip == Only(sess)
       IN
       CASE op = "rc_playpause" ->
              /\ todo' = rc_handle_play_pause_ops(sess) \o rest
              /\ UNCHANGED <<sess, procs, lastpid, budget, dpc, cmd>>
         [] op = "rc_stop" ->
              /\ todo' = rc_stop_playback_ops(pid) \o rest
              /\ cmd' = [cmd EXCEPT !.player = pid]
              /\ UNCHANGED <<sess, procs, lastpid, budget, dpc>>
         [] op = "rc_start" ->
              /\ todo' = rc_start_playback_ops(pid) \o rest
              /\ UNCHANGED <<sess, procs, lastpid, budget, dpc, cmd>>
         \* send_mpg123_command: a write to the pipe when both handles are set
         [] op \in {"quit", "load"} -> Skip
         [] op = "sleep" -> Skip
         \* kill(mpg123_pid, SIGTERM); pid -1 addresses every process the
         \* daemon may signal
         [] op = "rc_kill" ->
              /\ procs' = IF pid > 0 THEN kill_term(procs, pid)
                          ELSE [p \in DOMAIN procs |-> [procs[p] EXCEPT !.st = "zombie"]]
              /\ cmd' = [cmd EXCEPT !.killed = Append(@, pid)]
              /\ todo' = rest
              /\ UNCHANGED <<sess, lastpid, budget, dpc>>
         \* waitpid(mpg123_pid, NULL, 0) is entered with the value read now
         [] op = "rc_waitpid" ->
              /\ cmd' = [cmd EXCEPT !.waited = Append(@, pid), !.warg = pid]
              /\ todo' = <<"rc_wait_ret">> \o rest
              /\ UNCHANGED <<sess, procs, lastpid, budget, dpc>>
         \* ... and returns: ECHILD when there is no such child, otherwise
         \* once a child it waits for has terminated, which it reaps
         [] op = "rc_wait_ret" ->
              LET a == cmd.warg
                  mine == IF a > 0 THEN {a} \cap DOMAIN procs ELSE DOMAIN procs
              IN
              /\ \/ /\ mine = {}
                    /\ UNCHANGED procs
                 \/ \E p \in mine :
                       /\ procs[p].st = "zombie"
                       /\ procs' = reap(procs, p)
              /\ todo' = rest
              /\ UNCHANGED <<sess, lastpid, budget, dpc, cmd>>
         [] op = "rc_clear_pid" -> Only([sess EXCEPT !.mpg123_pid = -1])
         [] op = "close_stdin" -> Only([sess EXCEPT !.mpg123_stdin = -1])
         [] op = "flags_off" -> Only([sess EXCEPT !.is_playing = 0, !.is_paused = 0])
         [] op = "rc_next_idx" ->
              Only([sess EXCEPT !.current_song = rc_next_song(@)])
         [] op = "rc_prev_idx" ->
              Only([sess EXCEPT !.current_song = rc_prev_song(@)])
         [] op = "rc_fork" ->
              /\ todo' = rest
              /\ UNCHANGED <<dpc, budget, cmd>>
              /\ \/ /\ lastpid' = lastpid + 1
                    /\ procs' = [p \in DOMAIN procs \cup {lastpid + 1} |->
                                    IF p = lastpid + 1
                                    THEN [st |-> "running", kind |-> "mpg123",
                                          song |-> sess.current_song, cloud |-> 0]
                                    ELSE procs[p]]
                    /\ sess' = [sess EXCEPT !.mpg123_pid = lastpid + 1]
                 \/ /\ sess' = [sess EXCEPT !.mpg123_pid = -1]
                    /\ UNCHANGED <<procs, lastpid>>
         [] op = "set_stdin" -> Only([sess EXCEPT !.mpg123_stdin = PipeFd])
         [] op = "rc_set_playing" ->
              Only([sess EXCEPT !.is_playing = 1, !.is_paused = 0])
         [] op = "rc_pause" ->
              Only(IF pid <= 0 \/ sess.is_playing = 0 THEN sess
                   ELSE [sess EXCEPT !.is_paused = 1])
         [] op = "rc_resume" ->
              Only(IF pid <= 0 THEN sess ELSE [sess EXCEPT !.is_paused = 0])
         [] op = "notify" ->
              /\ dpc' = "poll"
              /\ todo' = rest
              /\ UNCHANGED <<sess, procs, lastpid, budget, cmd>>
    /\ rcFrame

\* main: read() returned the byte ev more than a second after the last
\* handled one, the switch runs
RcCommand(ev) ==
    /\ dpc = "poll"
    /\ budget.cmds > 0
    /\ Spend("cmds")
    /\ todo' = RcOps(ev)
    /\ dpc' = "run"
    /\ cmd' = [NoRcCmd EXCEPT !.code = ev, !.pre = sess]
    /\ UNCHANGED <<sess, procs, lastpid>>
    /\ rcFrame

\* main: poll() timed out; playback is started when nothing plays
RcTimeout ==
    /\ dpc = "poll"
    /\ budget.ticks > 0
    /\ Spend("ticks")
    /\ IF sess.is_playing = 0 /\ sess.mpg123_pid = -1
       THEN /\ todo' = <<"rc_start", "notify">>
            /\ dpc' = "run"
            /\ cmd' = [NoRcCmd EXCEPT !.code = "timeout", !.pre = sess]
       ELSE UNCHANGED <<todo, dpc, cmd>>
    /\ UNCHANGED <<sess, procs, lastpid>>
    /\ rcFrame

InitReaper ==
    /\ InitDriver({Daemon})
    /\ last_clk_state = 1
    /\ sess = InitRcSession
    /\ dpc = "poll"
    /\ todo = <<>>
    /\ revents = [dev |-> FALSE, sock |-> FALSE]
    /\ server = "none"
    /\ backlog = <<>>
    /\ cfd = NoClient
    /\ nresp = 0
    /\ procs = <<>>
    /\ lastpid = 0
    /\ mono_ms = BootMs
    /\ cmd = NoRcCmd
    /\ budget = [NoBudget EXCEPT !.cmds = MaxRcCmds, !.ticks = MaxRcTimeouts]

NextReaper ==
    \/ \E ev \in RcInputs : RcCommand(ev)
    \/ RcTimeout
    \/ RC_op
    \/ sigchld_handler
    \/ \E p \in DOMAIN procs : ChildExit(p)

SpecReaper == InitReaper /\ [][NextReaper]_vars

\* ---------------------------------------------------------------------------
\* C33: in the SIGCHLD-reaping variant every pid that stop_playback passes to
\* kill and to waitpid is the positive pid of the player it found when it
\* tested mpg123_pid; -1, which addresses every process, is never passed.
C33_SignalsOwnPlayer ==
    /\ \A i \in DOMAIN cmd.killed : cmd.killed[i] > 0 /\ cmd.killed[i] = cmd.player
    /\ \A i \in DOMAIN cmd.waited : cmd.waited[i] > 0 /\ cmd.waited[i] = cmd.player

\* start_playback of a NEXT or PREV command is about to run: its
\* stop_playback found a player and has returned, the command has changed
\* the index, and it has no new player yet
IndexChanged ==
    /\ dpc = "run"
    /\ cmd.player > 0
    /\ todo # <<>>
    /\ Head(todo) = "rc_start"

\* ---------------------------------------------------------------------------
\* C34: in the SIGCHLD-reaping variant NEXT moves current_song forward by
\* exactly one modulo the playlist length and PREV back by exactly one, also
\* when the old player's exit is reaped while stop_playback runs.
C34_OneStep ==
    IndexChanged =>
        /\ cmd.code = "N" => sess.current_song = rc_next_song(cmd.pre.current_song)
        /\ cmd.code = "R" => sess.current_song = rc_prev_song(cmd.pre.current_song)

(***************************************************************************)
(* SpecReaders: two tasks hold /dev/music_input open (mid_open admits any  *)
(* number) and call read() concurrently while events are queued.           *)
(***************************************************************************)
\* events queued and read() calls made in a run with two readers
MaxRdPush == 2
MaxRdReads == 3

Readers == {"r1", "r2"}

InitReaders ==
    /\ InitDriver(Readers)
    /\ InitDaemonOff
    /\ last_clk_state = 1
    /\ budget = [NoBudget EXCEPT !.push = MaxRdPush, !.reads = MaxRdReads]

NextReaders ==
    \/ \E e \in QueueInputs : Produce(e)
    \/ \E r \in DOMAIN rd : BurstReadCall(r)
    \/ \E r \in DOMAIN rd : ReadStep(r)

SpecReaders == InitReaders /\ [][NextReaders]_vars

\* ---------------------------------------------------------------------------
\* C35: with two concurrent readers, the entries taken out of the ring never
\* outnumber the events queue_event accepted (every byte handed to a reader is
\* an accepted event no other read has taken), and buf_tail never passes
\* buf_head: the occupancy the indices show is accepted minus taken.
C35_NoDoubleRead ==
    /\ Len(returned) + InFlight <= Len(accepted)
    /\ Unread = Len(accepted) - Len(returned) - InFlight

(***************************************************************************)
(* SpecProducers: interrupt handlers of two channels run on two CPUs and   *)
(* call queue_event at the same time while a task reads.  queue_event is   *)
(* unfolded into its statements; rd holds, next to the reader, the         *)
(* position of the handler running on each CPU.  buf_lock is held by the   *)
(* task whose position is between its lock and its unlock.                 *)
(*   q_lock   : spin_lock_irqsave                                          *)
(*   q_test   : next = (buf_head + 1) % EVENT_BUF_SIZE; if (next != tail)  *)
(*   q_store  : event_buffer[buf_head] = event                             *)
(*   q_head   : buf_head = next                                            *)
(*   q_wake   : wake_up_interruptible                                      *)
(*   q_unlock : spin_unlock_irqrestore                                     *)
(***************************************************************************)
\* queue_event calls, calls made by the second CPU, and read() calls in a run
MaxProdPush == 34
MaxProdRare == 1
MaxProdReads == 1

Cpus == {"cpu0", "cpu1"}
ProdReaders == {"r1"}

\* play_isr is bound to the first CPU, next_isr to the second
CpuEvent(c) == IF c = "cpu0" THEN "P" ELSE "N"

IdleCpu == [pc |-> "idle", task |-> "RUNNING", ev |-> NUL, next |-> 0]

InCritical(t) == rd[t].pc \in {"q_test", "q_store", "q_head", "q_wake", "q_unlock"}

\* a buf_lock that excludes nobody
BufLockFree_broken(t) == TRUE

\* spin_lock_irqsave(&buf_lock) succeeds for task t: nobody else holds the lock
BufLockFree(t) == \A o \in DOMAIN rd \ {t} : ~InCritical(o)

prodFrame ==
    /\ UNCHANGED <<drvTime, returned>>
    /\ driverOnly

\* the handler of the CPU's channel has passed its debounce and calls
\* queue_event
isr_enter(c) ==
    /\ rd[c].pc = "idle"
    /\ budget.push > 0
    /\ c = "cpu1" => budget.rare > 0
    /\ budget' = [budget EXCEPT !.push = @ - 1,
                                !.rare = IF c = "cpu1" THEN @ - 1 ELSE @]
    /\ SetRd(c, [rd[c] EXCEPT !.pc = "q_lock", !.ev = CpuEvent(c)])
    /\ UNCHANGED <<queueVars, read_wait, accepted, ndropped, lastpush>>
    /\ prodFrame

q_lock(c) ==
    /\ rd[c].pc = "q_lock"
    /\ BufLockFree(c)
    /\ SetRd(c, [rd[c] EXCEPT !.pc = "q_test"])
    /\ UNCHANGED <<queueVars, read_wait, accepted, ndropped, lastpush, budget>>
    /\ prodFrame

q_test(c) ==
    /\ rd[c].pc = "q_test"
    /\ IF HasRoom(buf_head, buf_tail)
       THEN /\ SetRd(c, [rd[c] EXCEPT !.pc = "q_store", !.next = NextIndex(buf_head)])
            /\ UNCHANGED <<ndropped, lastpush>>
       ELSE /\ SetRd(c, [rd[c] EXCEPT !.pc = "q_unlock", !.next = NextIndex(buf_head)])
            /\ ndropped' = ndropped + 1
            /\ lastpush' = [code |-> rd[c].ev, stored |-> FALSE, unread |-> Unread]
    /\ UNCHANGED <<queueVars, read_wait, accepted, budget>>
    /\ prodFrame

q_store(c) ==
    /\ rd[c].pc = "q_store"
    /\ event_buffer' = [event_buffer EXCEPT ![buf_head] = rd[c].ev]
    /\ SetRd(c, [rd[c] EXCEPT !.pc = "q_head"])
    /\ UNCHANGED <<buf_head, buf_tail, read_wait, accepted, ndropped, lastpush, budget>>
    /\ prodFrame

q_head(c) ==
    /\ rd[c].pc = "q_head"
    /\ buf_head' = rd[c].next
    /\ accepted' = Append(accepted, rd[c].ev)
    /\ lastpush' = [code |-> rd[c].ev, stored |-> TRUE, unread |-> Unread]
    /\ SetRd(c, [rd[c] EXCEPT !.pc = "q_wake"])
    /\ UNCHANGED <<event_buffer, buf_tail, read_wait, ndropped, budget>>
    /\ prodFrame

q_wake(c) ==
    /\ rd[c].pc = "q_wake"
    /\ rd' = [t \in DOMAIN rd |->
                 IF t = c THEN [rd[t] EXCEPT !.pc = "q_unlock"]
                 ELSE IF t \in Woken(read_wait) THEN [rd[t] EXCEPT !.task = "RUNNING"]
                 ELSE rd[t]]
    /\ read_wait' = read_wait \ Woken(read_wait)
    /\ UNCHANGED <<queueVars, accepted, ndropped, lastpush, budget>>
    /\ prodFrame

q_unlock(c) ==
    /\ rd[c].pc = "q_unlock"
    /\ SetRd(c, [rd[c] EXCEPT !.pc = "idle"])
    /\ UNCHANGED <<queueVars, read_wait, accepted, ndropped, lastpush, budget>>
    /\ prodFrame

\* a step of the reader; its pop is the critical section under buf_lock
ProdReadStep(r) ==
    /\ rd[r].pc = "pop" => BufLockFree(r)
    /\ ReadStep(r)

InitProducers ==
    /\ jiffies = BootJiffies
    /\ last_time = [ch \in Channels |-> 0]
    /\ last_clk_state = 1
    /\ event_buffer = [i \in 0 .. EVENT_BUF_SIZE - 1 |-> NUL]
    /\ buf_head = 0
    /\ buf_tail = 0
    /\ read_wait = {}
    /\ rd = [t \in ProdReaders \cup Cpus |->
                IF t \in Cpus THEN IdleCpu ELSE IdleReader]
    /\ accepted = <<>>
    /\ returned = <<>>
    /\ ndropped = 0
    /\ lastpush = [code |-> NUL, stored |-> FALSE, unread |-> 0]
    /\ accept_log = [ch \in Channels |-> <<-1, -1>>]
    /\ InitDaemonOff
    /\ budget = [NoBudget EXCEPT !.push = MaxProdPush, !.rare = MaxProdRare,
                                 !.reads = MaxProdReads]

NextProducers ==
    \/ \E c \in Cpus : isr_enter(c)
    \/ \E c \in Cpus : q_lock(c)
    \/ \E c \in Cpus : q_test(c)
    \/ \E c \in Cpus : q_store(c)
    \/ \E c \in Cpus : q_head(c)
    \/ \E c \in Cpus : q_wake(c)
    \/ \E c \in Cpus : q_unlock(c)
    \/ \E r \in ProdReaders : BurstReadCall(r)
    \/ \E r \in ProdReaders : ProdReadStep(r)

SpecProducers == InitProducers /\ [][NextProducers]_vars

\* queue_event calls that have reached their decision
CallsDecided ==
    (MaxProdPush - budget.push)
        - Cardinality({c \in Cpus : rd[c].pc \in {"q_lock", "q_test"}})

\* a CPU has found room and has not yet published its event through buf_head
Storing == \E c \in Cpus : rd[c].pc \in {"q_store", "q_head"}

\* ---------------------------------------------------------------------------
\* C36: with queue_event called from two CPUs at once while a task reads,
\* every call is decided as stored or as dropped; a call is dropped only when
\* the ring holds EVENT_BUF_SIZE - 1 unread entries; buf_head has advanced by
\* one per accepted event; and the unread window of the ring holds exactly the
\* accepted events not yet read, in the order of acceptance, so that no
\* accepted event is overwritten or lost.
C36_ConcurrentProducers ==
    /\ CallsDecided = Len(accepted) + ndropped + (IF Storing THEN 1 ELSE 0)
    /\ lastpush.code # NUL /\ ~lastpush.stored => lastpush.unread = EVENT_BUF_SIZE - 1
    /\ Unread = Len(accepted) - Len(returned) - InFlight
    /\ QueueContent = Pending

\* both CPUs are inside queue_event, one holding buf_lock and one spinning
\* on it, after the ring was full once and the reader has taken an entry
C36_Witness ==
    /\ rd["cpu0"].pc = "q_store"
    /\ rd["cpu1"].pc = "q_lock"
    /\ ndropped >= 1
    /\ Len(returned) = 1

(***************************************************************************)
(* SpecFrame: volume and mute commands, from the buttons and over HTTP,    *)
(* mixed with PLAY_PAUSE and MODE_TOGGLE so that they are handled in       *)
(* Stopped and in Playing, in Local and in Cloud mode.                     *)
(***************************************************************************)
FrameInputs == {"P", "C", "U", "D", "M"}
FrameRequests == {Request("/vol_up", FALSE, 0), Request("/vol_down", FALSE, 0),
                  Request("/mute", FALSE, 0)}

FrameHw(ev) ==
    /\ ev \in FrameInputs
    /\ HandlerCommand(ev)

FrameHttp(req) ==
    /\ budget.cmds > 0
    /\ Spend("cmds")
    /\ HttpCommand(req)

NextFrame ==
    \/ \E ev \in FrameInputs : FrameHw(ev)
    \/ \E req \in FrameRequests : FrameHttp(req)
    \/ D_op
    \/ D_sock
    \/ \E p \in DOMAIN procs : ChildExit(p)

SpecFrame == InitHandlers /\ [][NextFrame]_vars

VolumeCodes == {"U", "D", "M", "/vol_up", "/vol_down", "/mute"}

\* the part of the session a volume command has no business with
RunState(ss) == <<ss.is_playing, ss.mpg_pid, ss.current_song, ss.is_cloud>>

\* from the dispatch of a volume command on, the run state is the one the
\* command found and no child was forked or reaped
C37_Kept ==
    cmd.code \in VolumeCodes =>
        /\ RunState(sess) = RunState(cmd.pre)
        /\ lastpid = cmd.prelast
        /\ DOMAIN procs = DOMAIN cmd.preprocs

\* a statement of a volume command's handler leaves every process as it is
C37_Step ==
    (cmd.code \in VolumeCodes /\ dpc = "run" /\ todo' # todo) =>
        UNCHANGED <<procs, lastpid>>

\* ---------------------------------------------------------------------------
\* C37: VOLUME_UP, VOLUME_DOWN and MUTE_TOGGLE, from a button or over HTTP,
\* leave is_playing, the process handle, the track index and the mode as they
\* found them, in Stopped and in Playing; no statement of their handlers
\* forks, signals or reaps a process.
C37_VolumeFrame == []C37_Kept /\ [][C37_Step]_vars

C37_Witness ==
    /\ CmdDone("M")
    /\ cmd.pcode = "/vol_up"
    /\ sess.is_muted = 1
    /\ sess.is_playing = 1
    /\ sess.is_cloud = 1
    /\ sess.mpg_pid \in Live

\* what an interrupt on channel ch leaves alone: the timestamps of the other
\* channels, and with them the outcome of their next debounce test
OthersUntouched(ch) ==
    \A o \in Channels \ {ch} :
        /\ last_time'[o] = last_time[o]
        /\ DebounceOk(o, jiffies)' <=> DebounceOk(o, jiffies)

\* a handler that returns at its debounce test
Rejected ==
    UNCHANGED <<last_time, last_clk_state, accept_log, event_buffer, buf_head,
                buf_tail, accepted, ndropped, lastpush, read_wait, rd>>

C38_Step ==
    /\ \A ch \in Buttons :
          ButtonIrq(ch) =>
              /\ OthersUntouched(ch)
              /\ IF time_after(jiffies, last_time[ch] + Window(ch))
                 THEN last_time'[ch] = jiffies
                 ELSE Rejected
    /\ \A clk \in {0, 1}, dt \in {0, 1} :
          EncoderIrq(clk, dt) =>
              /\ OthersUntouched("encoder")
              /\ IF time_after(jiffies, last_time["encoder"] + Window("encoder"))
                 THEN last_time'["encoder"] = jiffies
                 ELSE Rejected

\* ---------------------------------------------------------------------------
\* C38: an interrupt rejected by its channel's debounce changes nothing: the
\* channel's timestamp stays that of the last accepted transition and the
\* queue is untouched; and an interrupt on one channel, accepted or not,
\* leaves every other channel's timestamp, and so the outcome of that
\* channel's next debounce test, as it was.
C38_DebounceFrame == [][C38_Step]_vars

\* play was accepted, then an interrupt was rejected inside play's window,
\* and next was accepted inside that window
C38_Witness ==
    /\ budget.irqs = MaxLineIrqs - 3
    /\ accepted = <<"P", "N">>
    /\ accept_log["encoder"][2] < 0
    /\ accept_log["next"][2] = jiffies
    /\ jiffies > accept_log["play"][2]
    /\ jiffies <= accept_log["play"][2] + Window("play")

(***************************************************************************)
(* SpecBypass: NEXT presses read at chosen distances in time, with /next   *)
(* and /local requests accepted in between, at the time of the last read.  *)
(***************************************************************************)
BypassInputs == {"N"}
BypassRequests == {Request("/next", FALSE, 0), Request("/local", TRUE, 3)}

BypassHw(ev, d) ==
    /\ ev \in BypassInputs
    /\ HwEvent(ev, d)

BypassHttp(req) ==
    /\ req \in BypassRequests
    /\ GapHttp(req)

NextBypass ==
    \/ \E ev \in BypassInputs, d \in GapSteps : BypassHw(ev, d)
    \/ \E req \in BypassRequests : BypassHttp(req)
    \/ D_op
    \/ D_sock

SpecBypass == InitGap /\ [][NextBypass]_vars

\* ---------------------------------------------------------------------------
\* C39: an HTTP command is carried out however recently a hardware event was
\* accepted, and it never causes a later hardware event to be dropped: /next
\* leaves last_event_ms as it was, /local sets it to 0, the hardware event
\* that follows /local is always dispatched, and every hardware event that is
\* dropped was read less than 200 ms after an accepted hardware event.
C39_RemoteBypass ==
    /\ (dpc # "run" /\ cmd.code = "/next") =>
          /\ sess.current_song = next_song(cmd.pre.current_song)
          /\ sess.last_event_ms = cmd.pre.last_event_ms
          /\ nresp = 1
    /\ (dpc # "run" /\ cmd.code = "/local") =>
          /\ sess.current_song = 3
          /\ sess.last_event_ms = 0
          /\ nresp = 1
    /\ (cmd.code \in BypassInputs /\ cmd.pcode = "/local") => cmd.taken
    /\ (dpc # "run" /\ cmd.code \in BypassInputs /\ ~cmd.taken) =>
          /\ cmd.prevhw >= 0
          /\ mono_ms - cmd.prevhw < EVENT_GAP_MS

\* /next was carried out at the very time an accepted NEXT press was read
C39_Witness ==
    /\ dpc # "run"
    /\ cmd.code = "/next"
    /\ cmd.pcode = "N"
    /\ mono_ms = cmd.hwat
    /\ sess.last_event_ms = mono_ms
    /\ sess.current_song = 2

=============================================================================
